---- MODULE Spec2Model ----
(***************************************************************************)
(* Object-level permission engine of djem (src/djem/auth.py).              *)
(*                                                                         *)
(* Python values are modelled as strings: "True", "False", "None", "1" (a  *)
(* truthy non-boolean) and "0" (a falsy non-boolean).  A permission name   *)
(* "app.code" is the sequence of its '.'-separated segments.               *)
(***************************************************************************)
EXTENDS Integers, Sequences, FiniteSets, TLC

\* ------------------------------------------------------------------ bounds
MaxOps == 3

\* Requests to decorated views are among the first MaxViewOps operations
MaxViewOps == 2

\* Operations in a behaviour of the log specification
MaxLogOps == 6

\* ---------------------------------------------------------------- universe
Insts == {"i1", "i2"}
Uids == {"u1", "u2"}
Sources == {"user", "group"}

ViewOPTest == <<"app", "view_optest">>
DeleteOPTest == <<"app", "delete_optest">>
ViewArchTest == <<"app", "view_archtest">>

Perms == {ViewOPTest, DeleteOPTest}

\* Target entities: a model type and a primary key (None before first save)
Entities == {"e1", "e2"}

EntType(obj) ==
    IF obj = "e2" THEN "archtest" ELSE "optest"

\* obj.pk, as '{0}'.format renders it
EntPk(obj) ==
    IF obj \in {"e1", "e2"} THEN "1" ELSE "None"

\* Permission.objects.filter(content_type=...) for the entity's model
PermsForModel(type) ==
    IF type = "optest" THEN <<ViewOPTest, DeleteOPTest>>
    ELSE IF type = "archtest" THEN <<ViewArchTest>>
    ELSE <<>>

\* What an access function does when called
PyValues == {"True", "False", "None", "1", "0"}
Outcomes == {"absent", "deny", "error"} \cup PyValues

\* obj=None: no object given
NoObj == "none"

\* ----------------------------------------------------------- Python values
Truthy(v) ==
    v \in {"True", "1"}

\* a or b
PyOr(a, b) ==
    IF Truthy(a) THEN a ELSE b

\* a and b
PyAnd(a, b) ==
    IF Truthy(a) THEN b ELSE a

\* a is None
IsNone(a) ==
    IF a = "None" THEN "True" ELSE "False"

\* bool(a), as applied by `if backend.has_perm(...): return True`
PyBool(a) ==
    IF Truthy(a) THEN "True" ELSE "False"

Raise == "raise"

\* ------------------------------------------------------------------- state
VARIABLES
    universal,      \* settings.DJEM_UNIVERSAL_OLP
    access_fns,     \* the access functions the model classes define, as
                    \* <<type, from_name, action>>
    uid,            \* uid[i]: the stored user the instance denotes
    is_active,      \* is_active[i]
    is_superuser,   \* is_superuser[i]
    olp_cache,      \* olp_cache[i]: user_obj._olp_cache, key -> value
    perm_cache,     \* perm_cache[i]: Django's model-level _perm_cache
    ninv,           \* ninv[i][<<from, perm, obj>>]: access function calls
                    \* made by has_perm since the instance's cache was reset
    okinv,          \* okinv[i]: access functions whose call did not fail
    reinv,          \* reinv[i]: access functions called again after that
    active_logs,    \* active_logs[i]: self._active_logs, an ordered
                    \* dictionary as the sequence of its <<name, log>> items
    finished_logs,  \* finished_logs[i]: self._finished_logs, likewise
    log_hist,       \* log_hist[i]: when each log was started and ended and
                    \* what was logged to it, as the caller saw it
    nops,           \* number of operations performed
    last            \* the last operation, its inputs and its outcome

vars == <<universal, access_fns, uid, is_active, is_superuser, olp_cache, perm_cache,
          ninv, okinv, reinv, active_logs, finished_logs, log_hist, nops, last>>

logvars == <<active_logs, finished_logs, log_hist>>

\* OrderedDict(): no items
NoLogs == <<>>

NoLogHist == [started |-> <<>>, lines |-> <<>>, ended |-> <<>>]

EmptyCache == <<>>

\* The dict d after d[k] = v
DictSet(d, k, v) ==
    [x \in DOMAIN d \cup {k} |-> IF x = k THEN v ELSE d[x]]

\* The dict d after d.update(e)
DictUpdate(d, e) ==
    [x \in DOMAIN d \cup DOMAIN e |-> IF x \in DOMAIN e THEN e[x] ELSE d[x]]

NoPermCache == [set |-> FALSE, perms |-> {}]

\* The user object as the backend sees it
UserObj(i) ==
    [is_active |-> is_active[i], is_superuser |-> is_superuser[i],
     olp_cache |-> olp_cache[i], perm_cache |-> perm_cache[i]]

\* ---------------------------------------------------------------- has_perm
\* user_obj.has_perm(perm) without an object: the model-level check.  Active
\* superusers hold everything; otherwise the model backend answers from the
\* permissions it loads once per instance (db: what storage grants now).
ModelHasPerm(u, perm, db) ==
    IF u.is_active /\ u.is_superuser THEN [holds |-> TRUE, user |-> u]
    ELSE IF ~u.is_active THEN [holds |-> FALSE, user |-> u]
    ELSE LET pc == IF u.perm_cache.set THEN u.perm_cache.perms ELSE db
         IN  [holds |-> perm \in pc,
              user |-> [u EXCEPT !.perm_cache = [set |-> TRUE, perms |-> pc]]]

\* '{0}-{1}-{2}'.format(from_name, perm, obj.pk)
PermCacheName(from_name, perm, obj) ==
    <<from_name, perm, EntPk(obj)>>

\* '_{0}_can_{1}'.format(from_name, perm.split('.')[-1])
AccessFnName(from_name, perm) ==
    <<from_name, perm[Len(perm)]>>

\* As AccessOf, but a missing access function denies
AccessOfAbsentDenies(outcome) ==
    IF outcome \in {"absent", "deny"} THEN "False" ELSE outcome

\* The value stored in the cache for an outcome of the access function
AccessOf(outcome) ==
    IF outcome = "absent" THEN "None"
    ELSE IF outcome = "deny" THEN "False"
    ELSE outcome

\* As GetObjectPermissionStore, but PermissionDenied raised by the access
\* function is not caught
GetObjectPermissionStoreDenyRaises(u, perm, obj, from_name, db, fn) ==
    LET name == PermCacheName(from_name, perm, obj)
        mp == ModelHasPerm(u, perm, db)
        fname == AccessFnName(from_name, perm)
        outcome == fn[fname]
        called == mp.holds /\ outcome # "absent"
        access == IF ~mp.holds THEN "False" ELSE AccessOf(outcome)
        events == <<<<"has_perm", perm>>>>
                  \o (IF called THEN <<<<"fn", from_name, perm>>>> ELSE <<>>)
    IN  IF called /\ outcome \in {"error", "deny"}
        THEN [access |-> Raise, user |-> mp.user, events |-> events]
        ELSE [access |-> access,
              user |-> [mp.user EXCEPT !.olp_cache = DictSet(@, name, access)],
              events |-> events \o <<<<"store", name>>>>]

\* As GetObjectPermissionStore, but any exception raised by the access
\* function is caught and taken for a denial
GetObjectPermissionStoreErrorDenies(u, perm, obj, from_name, db, fn) ==
    LET name == PermCacheName(from_name, perm, obj)
        mp == ModelHasPerm(u, perm, db)
        fname == AccessFnName(from_name, perm)
        outcome == fn[fname]
        called == mp.holds /\ outcome # "absent"
        access == IF ~mp.holds \/ outcome = "error" THEN "False"
                  ELSE AccessOf(outcome)
        events == <<<<"has_perm", perm>>>>
                  \o (IF called THEN <<<<"fn", from_name, perm>>>> ELSE <<>>)
    IN  [access |-> access,
         user |-> [mp.user EXCEPT !.olp_cache = DictSet(@, name, access)],
         events |-> events \o <<<<"store", name>>>>]

\* As GetObjectPermissionStore, but a denial is put in the cache before an
\* exception of the access function leaves the call
GetObjectPermissionStoreFailureCached(u, perm, obj, from_name, db, fn) ==
    LET name == PermCacheName(from_name, perm, obj)
        mp == ModelHasPerm(u, perm, db)
        fname == AccessFnName(from_name, perm)
        outcome == fn[fname]
        called == mp.holds /\ outcome # "absent"
        access == IF ~mp.holds THEN "False" ELSE AccessOf(outcome)
        events == <<<<"has_perm", perm>>>>
                  \o (IF called THEN <<<<"fn", from_name, perm>>>> ELSE <<>>)
    IN  IF called /\ outcome = "error"
        THEN [access |-> Raise,
              user |-> [mp.user EXCEPT !.olp_cache = DictSet(@, name, "False")],
              events |-> events]
        ELSE [access |-> access,
              user |-> [mp.user EXCEPT !.olp_cache = DictSet(@, name, access)],
              events |-> events \o <<<<"store", name>>>>]

\* As GetObjectPermissionStore, but the access function is called whether
\* or not the model-level permission is held
GetObjectPermissionStoreCallsUnheld(u, perm, obj, from_name, db, fn) ==
    LET name == PermCacheName(from_name, perm, obj)
        mp == ModelHasPerm(u, perm, db)
        fname == AccessFnName(from_name, perm)
        outcome == fn[fname]
        called == outcome # "absent"
        access == IF ~mp.holds THEN "False" ELSE AccessOf(outcome)
        events == <<<<"has_perm", perm>>>>
                  \o (IF called THEN <<<<"fn", from_name, perm>>>> ELSE <<>>)
    IN  IF called /\ outcome = "error"
        THEN [access |-> Raise, user |-> mp.user, events |-> events]
        ELSE [access |-> access,
              user |-> [mp.user EXCEPT !.olp_cache = DictSet(@, name, access)],
              events |-> events \o <<<<"store", name>>>>]

\* As GetObjectPermissionStore, but only a grant is put in the cache
GetObjectPermissionStoreGrantsOnly(u, perm, obj, from_name, db, fn) ==
    LET name == PermCacheName(from_name, perm, obj)
        mp == ModelHasPerm(u, perm, db)
        fname == AccessFnName(from_name, perm)
        outcome == fn[fname]
        called == mp.holds /\ outcome # "absent"
        access == IF ~mp.holds THEN "False" ELSE AccessOf(outcome)
        events == <<<<"has_perm", perm>>>>
                  \o (IF called THEN <<<<"fn", from_name, perm>>>> ELSE <<>>)
    IN  IF called /\ outcome = "error"
        THEN [access |-> Raise, user |-> mp.user, events |-> events]
        ELSE IF ~Truthy(access)
        THEN [access |-> access, user |-> mp.user, events |-> events]
        ELSE [access |-> access,
              user |-> [mp.user EXCEPT !.olp_cache = DictSet(@, name, access)],
              events |-> events \o <<<<"store", name>>>>]

\* As GetObjectPermissionStore, but without the model-level prerequisite
GetObjectPermissionStoreNoModelCheck(u, perm, obj, from_name, db, fn) ==
    LET name == PermCacheName(from_name, perm, obj)
        outcome == fn[AccessFnName(from_name, perm)]
        events == IF outcome # "absent"
                  THEN <<<<"fn", from_name, perm>>>> ELSE <<>>
    IN  IF outcome = "error"
        THEN [access |-> Raise, user |-> u, events |-> events]
        ELSE [access |-> AccessOf(outcome),
              user |-> [u EXCEPT !.olp_cache = DictSet(@, name, AccessOf(outcome))],
              events |-> events \o <<<<"store", name>>>>]

\* ObjectPermissionsBackend._get_object_permission.  fn maps an access
\* function name to what the function does when called on obj now.
\* Returns the access value (Raise when the function fails), the user object
\* afterwards and the trace of lookups made.
GetObjectPermissionStore(u, perm, obj, from_name, db, fn) ==
    LET name == PermCacheName(from_name, perm, obj)
        mp == ModelHasPerm(u, perm, db)
        fname == AccessFnName(from_name, perm)
        outcome == fn[fname]
        called == mp.holds /\ outcome # "absent"
        access == IF ~mp.holds THEN "False" ELSE AccessOf(outcome)
        events == <<<<"has_perm", perm>>>>
                  \o (IF called THEN <<<<"fn", from_name, perm>>>> ELSE <<>>)
    IN  IF called /\ outcome = "error"
        THEN [access |-> Raise, user |-> mp.user, events |-> events]
        ELSE [access |-> access,
              user |-> [mp.user EXCEPT !.olp_cache = DictSet(@, name, access)],
              events |-> events \o <<<<"store", name>>>>]

\* As GetObjectPermission, but the permission is not part of the cache key
\* on lookup
GetObjectPermissionKeyWithoutPerm(u, perm, obj, from_name, db, fn) ==
    LET hits == {k \in DOMAIN u.olp_cache :
                    k[1] = from_name /\ k[3] = EntPk(obj)}
    IN  IF ~u.is_active
        THEN [access |-> "False", user |-> u, events |-> <<>>]
        ELSE IF hits # {}
        THEN [access |-> u.olp_cache[CHOOSE k \in hits : TRUE], user |-> u,
              events |-> <<>>]
        ELSE GetObjectPermissionStore(u, perm, obj, from_name, db, fn)

\* As GetObjectPermission, but inactive users are resolved like active ones
GetObjectPermissionActiveUnchecked(u, perm, obj, from_name, db, fn) ==
    LET name == PermCacheName(from_name, perm, obj)
    IN  IF name \in DOMAIN u.olp_cache
        THEN [access |-> u.olp_cache[name], user |-> u, events |-> <<>>]
        ELSE GetObjectPermissionStore(u, perm, obj, from_name, db, fn)

\* As GetObjectPermission, but the cache is written and never read
GetObjectPermissionUncached(u, perm, obj, from_name, db, fn) ==
    IF ~u.is_active
    THEN [access |-> "False", user |-> u, events |-> <<>>]
    ELSE GetObjectPermissionStore(u, perm, obj, from_name, db, fn)

\* The body of _get_object_permission: the inactive check, the cache lookup
\* and, on a miss, the resolution above
GetObjectPermission(u, perm, obj, from_name, db, fn) ==
    LET name == PermCacheName(from_name, perm, obj)
    IN  IF ~u.is_active
        THEN [access |-> "False", user |-> u, events |-> <<>>]
        ELSE IF name \in DOMAIN u.olp_cache
        THEN [access |-> u.olp_cache[name], user |-> u, events |-> <<>>]
        ELSE GetObjectPermissionStore(u, perm, obj, from_name, db, fn)

\* As Aggregate, but one source without an opinion is enough
AggregateOneNone(user_access, group_access) ==
    PyOr(PyOr(user_access, group_access),
         PyOr(IsNone(user_access), IsNone(group_access)))

\* As Aggregate, but only an explicit grant gives access
AggregateAnyGrant(user_access, group_access) ==
    PyOr(user_access, group_access)

\* As Aggregate, but a denial by either source wins
AggregateDenyWins(user_access, group_access) ==
    IF user_access = "False" \/ group_access = "False" THEN "False"
    ELSE PyOr(PyOr(user_access, group_access),
              PyAnd(IsNone(user_access), IsNone(group_access)))

\* The closing expression of has_perm and of the loop body of
\* _get_object_permissions
Aggregate(user_access, group_access) ==
    PyOr(PyOr(user_access, group_access),
         PyAnd(IsNone(user_access), IsNone(group_access)))

\* As BackendHasPerm, but the group source is resolved even after a user grant
BackendHasPermBothSources(u, perm, obj, db, fn) ==
    LET ua == GetObjectPermission(u, perm, obj, "user", db, fn)
    IN  IF ua.access = Raise
        THEN [result |-> Raise, user |-> ua.user, events |-> ua.events]
        ELSE LET ga == GetObjectPermission(ua.user, perm, obj, "group", db, fn)
             IN  IF ga.access = Raise
                 THEN [result |-> Raise, user |-> ga.user,
                       events |-> ua.events \o ga.events]
                 ELSE [result |-> Aggregate(ua.access, ga.access),
                       user |-> ga.user, events |-> ua.events \o ga.events]

\* ObjectPermissionsBackend.has_perm, for an object that is present
BackendHasPerm(u, perm, obj, db, fn) ==
    LET ua == GetObjectPermission(u, perm, obj, "user", db, fn)
    IN  IF ua.access = Raise
        THEN [result |-> Raise, user |-> ua.user, events |-> ua.events]
        ELSE IF Truthy(ua.access)
        THEN [result |-> Aggregate(ua.access, "None"), user |-> ua.user,
              events |-> ua.events]
        ELSE LET ga == GetObjectPermission(ua.user, perm, obj, "group", db, fn)
             IN  IF ga.access = Raise
                 THEN [result |-> Raise, user |-> ga.user,
                       events |-> ua.events \o ga.events]
                 ELSE [result |-> Aggregate(ua.access, ga.access),
                       user |-> ga.user, events |-> ua.events \o ga.events]

\* As UserHasPerm, but superusers are let through without a look at
\* is_active
UserHasPermInactiveSuperuser(u, perm, obj, db, fn, univ) ==
    IF ~univ /\ u.is_superuser
    THEN [result |-> "True", user |-> u, events |-> <<>>]
    ELSE LET r == BackendHasPerm(u, perm, obj, db, fn)
         IN  [r EXCEPT !.result = IF @ = Raise THEN Raise ELSE PyBool(@)]

\* As UserHasPerm, but active superusers are let through whatever
\* DJEM_UNIVERSAL_OLP is
UserHasPermBypassUniversal(u, perm, obj, db, fn, univ) ==
    IF u.is_active /\ u.is_superuser
    THEN [result |-> "True", user |-> u, events |-> <<>>]
    ELSE LET r == BackendHasPerm(u, perm, obj, db, fn)
         IN  [r EXCEPT !.result = IF @ = Raise THEN Raise ELSE PyBool(@)]

\* As UserHasPerm, but superusers go through the backends like everyone
UserHasPermNoBypass(u, perm, obj, db, fn, univ) ==
    LET r == BackendHasPerm(u, perm, obj, db, fn)
    IN  [r EXCEPT !.result = IF @ = Raise THEN Raise ELSE PyBool(@)]

\* As UserHasPerm, but what the backend returned is passed on as it is
UserHasPermRaw(u, perm, obj, db, fn, univ) ==
    IF ~univ /\ u.is_active /\ u.is_superuser
    THEN [result |-> "True", user |-> u, events |-> <<>>]
    ELSE BackendHasPerm(u, perm, obj, db, fn)

\* OLPMixin.has_perm(perm, obj) for an object that is present: the default
\* behaviour lets active superusers through; otherwise the backends are
\* asked and the first truthy answer wins.
UserHasPerm(u, perm, obj, db, fn, univ) ==
    IF ~univ /\ u.is_active /\ u.is_superuser
    THEN [result |-> "True", user |-> u, events |-> <<>>]
    ELSE LET r == BackendHasPerm(u, perm, obj, db, fn)
         IN  [r EXCEPT !.result = IF @ = Raise THEN Raise ELSE PyBool(@)]

\* ----------------------------------------------------------------- history
Count(f, k) ==
    IF k \in DOMAIN f THEN f[k] ELSE 0

\* The access functions called in a trace, as <<from_name, perm>> pairs
FnCalls(events) ==
    {<<events[n][2], events[n][3]>> : n \in {m \in DOMAIN events : events[m][1] = "fn"}}

NoCall ==
    [op |-> "init", inst |-> "i1", perm |-> <<>>, obj |-> NoObj,
     from_name |-> "none", result |-> "None", perms |-> {}, events |-> <<>>,
     pre |-> [is_active |-> TRUE, is_superuser |-> FALSE,
              olp_cache |-> EmptyCache, perm_cache |-> NoPermCache],
     db |-> {}, fn |-> <<>>,
     view_perms |-> <<>>, raise_exception |-> FALSE, kwargs |-> <<>>,
     view_kwargs |-> <<>>,
     name |-> "", lines |-> <<>>, raw |-> FALSE, value |-> <<"none">>,
     logs |-> [active |-> NoLogs, finished |-> NoLogs], hist |-> NoLogHist]

\* -------------------------------------------------- _get_object_permissions
SeqToSet(s) ==
    {s[n] : n \in DOMAIN s}

\* As PermsLoop, but a permission is added only when a source grants it
RECURSIVE PermsLoopGrantsOnly(_, _, _, _, _, _, _)
PermsLoopGrantsOnly(st, perms_for_model, n, obj, from_name, db, fn) ==
    IF n > Len(perms_for_model) THEN st
    ELSE
    LET perm == perms_for_model[n]
        ua == IF from_name # "group"
              THEN GetObjectPermission(st.user, perm, obj, "user", db, fn)
              ELSE [access |-> "None", user |-> st.user, events |-> <<>>]
    IN  IF ua.access = Raise
        THEN [st EXCEPT !.result = Raise, !.user = ua.user,
                        !.events = @ \o ua.events]
        ELSE
        LET ga == IF ~Truthy(ua.access) /\ from_name # "user"
                  THEN GetObjectPermission(ua.user, perm, obj, "group", db, fn)
                  ELSE [access |-> "None", user |-> ua.user, events |-> <<>>]
        IN  IF ga.access = Raise
            THEN [st EXCEPT !.result = Raise, !.user = ga.user,
                            !.events = @ \o ua.events \o ga.events]
            ELSE PermsLoopGrantsOnly(
                    [result |-> "set",
                     perms |-> IF Truthy(PyOr(ua.access, ga.access))
                               THEN st.perms \cup {perm} ELSE st.perms,
                     user |-> ga.user,
                     events |-> st.events \o ua.events \o ga.events],
                    perms_for_model, n + 1, obj, from_name, db, fn)

\* The for loop of _get_object_permissions from position n on: st carries
\* the user object, the permissions collected and the trace so far.
RECURSIVE PermsLoop(_, _, _, _, _, _, _)
PermsLoop(st, perms_for_model, n, obj, from_name, db, fn) ==
    IF n > Len(perms_for_model) THEN st
    ELSE
    LET perm == perms_for_model[n]
        ua == IF from_name # "group"
              THEN GetObjectPermission(st.user, perm, obj, "user", db, fn)
              ELSE [access |-> "None", user |-> st.user, events |-> <<>>]
    IN  IF ua.access = Raise
        THEN [st EXCEPT !.result = Raise, !.user = ua.user,
                        !.events = @ \o ua.events]
        ELSE
        LET ga == IF ~Truthy(ua.access) /\ from_name # "user"
                  THEN GetObjectPermission(ua.user, perm, obj, "group", db, fn)
                  ELSE [access |-> "None", user |-> ua.user, events |-> <<>>]
        IN  IF ga.access = Raise
            THEN [st EXCEPT !.result = Raise, !.user = ga.user,
                            !.events = @ \o ua.events \o ga.events]
            ELSE PermsLoop(
                    [result |-> "set",
                     perms |-> IF Truthy(Aggregate(ua.access, ga.access))
                               THEN st.perms \cup {perm} ELSE st.perms,
                     user |-> ga.user,
                     events |-> st.events \o ua.events \o ga.events],
                    perms_for_model, n + 1, obj, from_name, db, fn)

\* As GetObjectPermissions, but from_name does not reach the loop
GetObjectPermissionsFilterIgnored(u, obj, from_name, db, fn, univ) ==
    LET start == [result |-> "set", perms |-> {}, user |-> u, events |-> <<>>]
    IN  IF obj = NoObj \/ ~u.is_active THEN start
        ELSE IF u.is_superuser /\ ~univ
        THEN [start EXCEPT !.perms = SeqToSet(PermsForModel(EntType(obj)))]
        ELSE PermsLoop(start, PermsForModel(EntType(obj)), 1, obj, "both",
                       db, fn)

\* As GetObjectPermissions, but superusers are resolved like everyone
GetObjectPermissionsNoSuperuser(u, obj, from_name, db, fn, univ) ==
    LET start == [result |-> "set", perms |-> {}, user |-> u, events |-> <<>>]
    IN  IF obj = NoObj \/ ~u.is_active THEN start
        ELSE PermsLoop(start, PermsForModel(EntType(obj)), 1, obj, from_name,
                       db, fn)

\* As GetObjectPermissions, but without the check of is_active
GetObjectPermissionsActiveUnchecked(u, obj, from_name, db, fn, univ) ==
    LET start == [result |-> "set", perms |-> {}, user |-> u, events |-> <<>>]
    IN  IF obj = NoObj THEN start
        ELSE IF u.is_superuser /\ ~univ
        THEN [start EXCEPT !.perms = SeqToSet(PermsForModel(EntType(obj)))]
        ELSE PermsLoop(start, PermsForModel(EntType(obj)), 1, obj, from_name,
                       db, fn)

\* ObjectPermissionsBackend._get_object_permissions; from_name is "user",
\* "group" or "both" (None in the code)
GetObjectPermissions(u, obj, from_name, db, fn, univ) ==
    LET start == [result |-> "set", perms |-> {}, user |-> u, events |-> <<>>]
    IN  IF obj = NoObj \/ ~u.is_active THEN start
        ELSE IF u.is_superuser /\ ~univ
        THEN [start EXCEPT !.perms = SeqToSet(PermsForModel(EntType(obj)))]
        ELSE PermsLoop(start, PermsForModel(EntType(obj)), 1, obj, from_name,
                       db, fn)

\* -------------------------------------------------------------------- Init
\* Every instance slot holds a freshly constructed user object
InitInsts(fns, uids, actives, supers) ==
    /\ universal \in BOOLEAN
    /\ access_fns \in SUBSET fns
    /\ uid \in [Insts -> uids]
    /\ is_active \in [Insts -> actives]
    /\ is_superuser \in [Insts -> supers]
    /\ olp_cache = [i \in Insts |-> EmptyCache]
    /\ perm_cache = [i \in Insts |-> NoPermCache]
    /\ ninv = [i \in Insts |-> <<>>]
    /\ okinv = [i \in Insts |-> {}]
    /\ reinv = [i \in Insts |-> {}]
    /\ active_logs = [i \in Insts |-> NoLogs]
    /\ finished_logs = [i \in Insts |-> NoLogs]
    /\ log_hist = [i \in Insts |-> NoLogHist]
    /\ nops = 0
    /\ last = NoCall

\* ----------------------------------------------------------------- actions
\* As StoreCache, but with one cache shared by all instances
StoreCacheShared(caches, i, c) ==
    [j \in Insts |-> c]

\* self._olp_cache is an attribute of the one instance
StoreCache(caches, i, c) ==
    [caches EXCEPT ![i] = c]

\* The access functions of obj a call reached, and the one that failed
CallsOn(events, obj) ==
    {<<c[1], c[2], obj>> : c \in FnCalls(events)}

FailedOn(r, obj) ==
    IF r.result = Raise
    THEN {<<r.events[Len(r.events)][2], r.events[Len(r.events)][3], obj>>}
    ELSE {}

\* user.has_perm(perm, obj)
HasPerm(i, perm, obj, db, fn) ==
    /\ nops < MaxOps
    /\ LET u == UserObj(i)
           r == UserHasPerm(u, perm, obj, db, fn, universal)
           calls == CallsOn(r.events, obj)
       IN  /\ olp_cache' = StoreCache(olp_cache, i, r.user.olp_cache)
           /\ perm_cache' = [perm_cache EXCEPT ![i] = r.user.perm_cache]
           /\ ninv' = [ninv EXCEPT ![i] =
                         DictUpdate(@, [k \in calls |-> Count(@, k) + 1])]
           /\ okinv' = [okinv EXCEPT ![i] = @ \cup (calls \ FailedOn(r, obj))]
           /\ reinv' = [reinv EXCEPT ![i] = @ \cup (calls \cap okinv[i])]
           /\ last' = [NoCall EXCEPT !.op = "has_perm", !.inst = i,
                         !.perm = perm, !.obj = obj, !.result = r.result,
                         !.events = r.events, !.pre = u, !.db = db, !.fn = fn]
    /\ nops' = nops + 1
    /\ UNCHANGED logvars
    /\ UNCHANGED <<universal, access_fns, uid, is_active, is_superuser>>

\* user.get_user_permissions(obj), get_group_permissions(obj) and
\* get_all_permissions(obj), through the backend
GetPermissions(i, obj, from_name, db, fn) ==
    /\ nops < MaxOps
    /\ LET u == UserObj(i)
           r == GetObjectPermissions(u, obj, from_name, db, fn, universal)
       IN  /\ olp_cache' = StoreCache(olp_cache, i, r.user.olp_cache)
           /\ perm_cache' = [perm_cache EXCEPT ![i] = r.user.perm_cache]
           /\ last' = [NoCall EXCEPT !.op = "get_permissions", !.inst = i,
                         !.obj = obj, !.from_name = from_name,
                         !.result = r.result, !.perms = r.perms,
                         !.events = r.events, !.pre = u, !.db = db, !.fn = fn]
    /\ nops' = nops + 1
    /\ UNCHANGED logvars
    /\ UNCHANGED <<universal, access_fns, uid, is_active, is_superuser, ninv, okinv, reinv>>

\* As ClearPermCache, but only the model-level caches are dropped
ClearPermCacheKeepsOlp(i) ==
    /\ nops < MaxOps
    /\ perm_cache' = [perm_cache EXCEPT ![i] = NoPermCache]
    /\ last' = [NoCall EXCEPT !.op = "clear_perm_cache", !.inst = i,
                  !.result = IF perm_cache[i].set THEN "None" ELSE Raise,
                  !.pre = UserObj(i)]
    /\ nops' = nops + 1
    /\ UNCHANGED logvars
    /\ UNCHANGED <<universal, access_fns, uid, is_active, is_superuser,
                   olp_cache, ninv, okinv, reinv>>

\* user.clear_perm_cache(): the object-level cache is replaced first; the
\* del statements fail when the model-level caches were never filled
ClearPermCache(i) ==
    /\ nops < MaxOps
    /\ olp_cache' = StoreCache(olp_cache, i, EmptyCache)
    /\ perm_cache' = [perm_cache EXCEPT ![i] = NoPermCache]
    /\ ninv' = [ninv EXCEPT ![i] = <<>>]
    /\ okinv' = [okinv EXCEPT ![i] = {}]
    /\ reinv' = [reinv EXCEPT ![i] = {}]
    /\ last' = [NoCall EXCEPT !.op = "clear_perm_cache", !.inst = i,
                  !.result = IF perm_cache[i].set THEN "None" ELSE Raise,
                  !.pre = UserObj(i)]
    /\ nops' = nops + 1
    /\ UNCHANGED logvars
    /\ UNCHANGED <<universal, access_fns, uid, is_active, is_superuser>>

\* A user object is constructed (or loaded again from storage) into slot i
Load(i, u, active, super) ==
    /\ nops < MaxOps
    /\ uid' = [uid EXCEPT ![i] = u]
    /\ is_active' = [is_active EXCEPT ![i] = active]
    /\ is_superuser' = [is_superuser EXCEPT ![i] = super]
    /\ olp_cache' = StoreCache(olp_cache, i, EmptyCache)
    /\ perm_cache' = [perm_cache EXCEPT ![i] = NoPermCache]
    /\ ninv' = [ninv EXCEPT ![i] = <<>>]
    /\ okinv' = [okinv EXCEPT ![i] = {}]
    /\ reinv' = [reinv EXCEPT ![i] = {}]
    /\ active_logs' = [active_logs EXCEPT ![i] = NoLogs]
    /\ finished_logs' = [finished_logs EXCEPT ![i] = NoLogs]
    /\ log_hist' = [log_hist EXCEPT ![i] = NoLogHist]
    /\ last' = [NoCall EXCEPT !.op = "load", !.inst = i, !.pre = UserObj(i)]
    /\ nops' = nops + 1
    /\ UNCHANGED <<universal, access_fns>>

\* user.is_active = b on a live instance
SetActive(i, b) ==
    /\ nops < MaxOps
    /\ is_active[i] # b
    /\ is_active' = [is_active EXCEPT ![i] = b]
    /\ last' = [NoCall EXCEPT !.op = "set_active", !.inst = i,
                  !.pre = UserObj(i)]
    /\ nops' = nops + 1
    /\ UNCHANGED logvars
    /\ UNCHANGED <<universal, access_fns, uid, is_superuser, olp_cache, perm_cache,
                   ninv, okinv, reinv>>

\* user.is_superuser = b on a live instance
SetSuperuser(i, b) ==
    /\ nops < MaxOps
    /\ is_superuser[i] # b
    /\ is_superuser' = [is_superuser EXCEPT ![i] = b]
    /\ last' = [NoCall EXCEPT !.op = "set_superuser", !.inst = i,
                  !.pre = UserObj(i)]
    /\ nops' = nops + 1
    /\ UNCHANGED logvars
    /\ UNCHANGED <<universal, access_fns, uid, is_active, olp_cache, perm_cache,
                   ninv, okinv, reinv>>

\* ------------------------------------------------------ permission_required
\* Permission.objects.get(content_type__app_label=..., codename=...) and the
\* model class of its content type; "" when split('.') does not give two
\* parts or no such permission exists
PermModel(perm) ==
    IF Len(perm) # 2 THEN ""
    ELSE IF perm \in {ViewOPTest, DeleteOPTest} THEN "optest"
    ELSE IF perm = ViewArchTest THEN "archtest"
    ELSE ""

\* get_object_or_404(model, pk=obj_pk): the stored objects are e1 and e2,
\* each with primary key 1 in its table
ObjectOf(model, pk) ==
    IF model = "optest" /\ pk = "1" THEN "e1"
    ELSE IF model = "archtest" /\ pk = "1" THEN "e2"
    ELSE NoObj

\* user.has_perm(perm) without an object, as _check_perms calls it for a
\* permission given as a string
HasModelPerm(u, perm, db) ==
    LET mp == ModelHasPerm(u, perm, db)
    IN  [result |-> IF mp.holds THEN "True" ELSE "False", user |-> mp.user,
         events |-> <<>>]

\* As CheckPerm, but the result of has_perm is not looked at
CheckPermUnchecked(st, entry, db, fn, univ) ==
    IF Len(entry) = 1 THEN st
    ELSE
    LET perm == entry[1]
        obj_arg == entry[2]
        model == PermModel(perm)
        obj == ObjectOf(model, st.kwargs[obj_arg])
    IN  IF obj_arg \notin DOMAIN st.kwargs
        THEN [st EXCEPT !.result = "KeyError"]
        ELSE IF model = ""
        THEN [st EXCEPT !.result = "PermissionDenied",
                        !.events = Append(@, <<"lookup", perm>>)]
        ELSE IF obj = NoObj
        THEN [st EXCEPT !.result = "Http404",
                        !.events = @ \o <<<<"lookup", perm>>,
                                          <<"load", model>>>>]
        ELSE [st EXCEPT !.kwargs[obj_arg] = obj,
                        !.events = @ \o <<<<"lookup", perm>>,
                                          <<"load", model>>>>]

\* if not user.has_perm(perm, obj): raise PermissionDenied, with r what
\* has_perm gave: the entry passes, is denied, or has_perm raised
PermChecked(st, perm, obj, r) ==
    [st EXCEPT !.result = IF r.result = Raise THEN Raise
                          ELSE IF Truthy(r.result) THEN "ok"
                          ELSE "PermissionDenied",
               !.user = r.user,
               !.events = Append(@, <<"check", perm, obj>>) \o r.events]

\* The body of the loop of _check_perms for one entry of perms, a string
\* <<perm>> or a two-tuple <<perm, obj_arg>>.  st carries the user object,
\* the view's keyword arguments and the trace so far.
CheckPerm(st, entry, db, fn, univ) ==
    IF Len(entry) = 1
    THEN PermChecked(st, entry[1], NoObj,
                     HasModelPerm(st.user, entry[1], db))
    ELSE
    LET perm == entry[1]
        obj_arg == entry[2]
        model == PermModel(perm)
        obj == ObjectOf(model, st.kwargs[obj_arg])
    IN  IF obj_arg \notin DOMAIN st.kwargs
        THEN [st EXCEPT !.result = "KeyError"]
        ELSE IF model = ""
        THEN [st EXCEPT !.result = "PermissionDenied",
                        !.events = Append(@, <<"lookup", perm>>)]
        ELSE IF obj = NoObj
        THEN [st EXCEPT !.result = "Http404",
                        !.events = @ \o <<<<"lookup", perm>>,
                                          <<"load", model>>>>]
        ELSE PermChecked([st EXCEPT !.kwargs[obj_arg] = obj,
                                    !.events = @ \o <<<<"lookup", perm>>,
                                                      <<"load", model>>>>],
                         perm, obj,
                         UserHasPerm(st.user, perm, obj, db, fn, univ))

\* _check_perms from entry n on: the first entry that does not pass ends it
RECURSIVE CheckPerms(_, _, _, _, _, _)
\* As CheckPermsAfter, but the entries after one that failed are gone
\* through as well before the failure is raised
CheckPermsAfterKeepsGoing(next, perms, n, db, fn, univ) ==
    IF next.result # "ok"
    THEN [CheckPerms([next EXCEPT !.result = "ok"], perms, n + 1, db, fn,
                     univ) EXCEPT !.result = next.result]
    ELSE CheckPerms(next, perms, n + 1, db, fn, univ)

\* The loop of _check_perms after entry n gave `next`
CheckPermsAfter(next, perms, n, db, fn, univ) ==
    IF next.result # "ok" THEN next
    ELSE CheckPerms(next, perms, n + 1, db, fn, univ)

CheckPerms(st, perms, n, db, fn, univ) ==
    IF n > Len(perms) THEN st
    ELSE CheckPermsAfter(CheckPerm(st, perms[n], db, fn, univ),
                         perms, n, db, fn, univ)

\* _wrapped_view of permission_required: the view is called when
\* _check_perms returns; PermissionDenied is raised again or turned into
\* the redirect to the login page; anything else propagates
WrappedView(u, perms, kwargs, raise_exception, db, fn, univ) ==
    [CheckPerms([result |-> "ok", user |-> u, kwargs |-> kwargs,
                 events |-> <<>>], perms, 1, db, fn, univ)
     EXCEPT !.result =
            IF @ = "ok" THEN "view"
            ELSE IF @ = "PermissionDenied"
            THEN (IF raise_exception THEN "PermissionDenied" ELSE "redirect")
            ELSE @]

\* What a request leaves behind, r being what _wrapped_view gave for the
\* user object u of instance i
Responded(i, u, r, perms, kwargs, raise_exception, db, fn) ==
    /\ olp_cache' = StoreCache(olp_cache, i, r.user.olp_cache)
    /\ perm_cache' = [perm_cache EXCEPT ![i] = r.user.perm_cache]
    /\ ninv' = [ninv EXCEPT ![i] =
                  DictUpdate(@, [k \in CallsOn(r.events, "e1") |->
                                    Count(@, k) + 1])]
    /\ okinv' = [okinv EXCEPT ![i] =
                   @ \cup (CallsOn(r.events, "e1") \ FailedOn(r, "e1"))]
    /\ reinv' = [reinv EXCEPT ![i] =
                   @ \cup (CallsOn(r.events, "e1") \cap okinv[i])]
    /\ last' = [NoCall EXCEPT !.op = "request", !.inst = i,
                  !.view_perms = perms, !.kwargs = kwargs,
                  !.raise_exception = raise_exception,
                  !.result = r.result, !.view_kwargs = r.kwargs,
                  !.events = r.events, !.pre = u, !.db = db, !.fn = fn]

\* A request to a view decorated with permission_required(*perms,
\* raise_exception=...), made by the user instance i
Request(i, perms, kwargs, raise_exception, db, fn) ==
    /\ nops < MaxViewOps
    /\ Responded(i, UserObj(i),
                 WrappedView(UserObj(i), perms, kwargs, raise_exception, db,
                             fn, universal),
                 perms, kwargs, raise_exception, db, fn)
    /\ nops' = nops + 1
    /\ UNCHANGED logvars
    /\ UNCHANGED <<universal, access_fns, uid, is_active, is_superuser>>

\* -------------------------------------------------------------------- logs
permvars == <<universal, access_fns, uid, is_active, is_superuser, olp_cache,
              perm_cache, ninv, okinv, reinv>>

LogNames == {"n1", "n2"}

\* The *lines of a log() call
LogArgs == {<<>>, <<"a">>, <<"b", "a">>}

\* k in d
Keys(d) ==
    {d[n][1] : n \in DOMAIN d}

\* d[k]
Value(d, k) ==
    d[CHOOSE n \in DOMAIN d : d[n][1] = k][2]

\* d[k] = v: a new key goes to the end, a present key keeps its place
SetItem(d, k, v) ==
    IF k \in Keys(d)
    THEN [n \in DOMAIN d |-> IF d[n][1] = k THEN <<k, v>> ELSE d[n]]
    ELSE Append(d, <<k, v>>)

\* d.pop(k)
Pop(d, k) ==
    SelectSeq(d, LAMBDA it : it[1] # k)

\* As PopItem, but the first item is taken
PopItemFirst(d) ==
    [item |-> d[1], rest |-> Tail(d)]

\* d.popitem() on an OrderedDict that is not empty: the last item
PopItem(d) ==
    [item |-> d[Len(d)], rest |-> SubSeq(d, 1, Len(d) - 1)]

\* '\n'.join(log)
RECURSIVE Join(_)
Join(log) ==
    IF log = <<>> THEN ""
    ELSE IF Len(log) = 1 THEN log[1]
    ELSE log[1] \o "\n" \o Join(Tail(log))

\* self._active_logs and self._finished_logs of instance i
LogsOf(i) ==
    [active |-> active_logs[i], finished |-> finished_logs[i]]

\* As StartLogOn, but an active log of the name is started over
StartLogOnRestarts(logs, name) ==
    [result |-> "None",
     logs |-> [logs EXCEPT !.active = SetItem(@, name, <<>>)]]

\* OLPMixin.start_log
StartLogOn(logs, name) ==
    IF name \in Keys(logs.active)
    THEN [result |-> "ValueError", logs |-> logs]
    ELSE [result |-> "None",
          logs |-> [logs EXCEPT !.active = SetItem(@, name, <<>>)]]

\* As EndLogOn, but a finished log of the same name is overwritten where
\* it is
EndLogOnKeepsPlace(logs) ==
    IF logs.active = <<>>
    THEN [result |-> "KeyError", name |-> "", logs |-> logs]
    ELSE LET it == PopItem(logs.active)
         IN  [result |-> "None", name |-> it.item[1],
              logs |-> [active |-> it.rest,
                        finished |-> SetItem(logs.finished, it.item[1],
                                             it.item[2])]]

\* OLPMixin.end_log; popitem raises KeyError on an empty dictionary
EndLogOn(logs) ==
    IF logs.active = <<>>
    THEN [result |-> "KeyError", name |-> "", logs |-> logs]
    ELSE LET it == PopItem(logs.active)
             name == it.item[1]
             finished == IF name \in Keys(logs.finished)
                         THEN Pop(logs.finished, name) ELSE logs.finished
         IN  [result |-> "None", name |-> name,
              logs |-> [active |-> it.rest,
                        finished |-> SetItem(finished, name, it.item[2])]]

\* As LogOn, but with no active log the lines are dropped without an
\* exception
LogOnSilent(logs, lines) ==
    IF logs.active = <<>>
    THEN [result |-> "None", logs |-> logs]
    ELSE LET it == PopItem(logs.active)
         IN  [result |-> "None",
              logs |-> [logs EXCEPT !.active =
                          SetItem(it.rest, it.item[1], it.item[2] \o lines)]]

\* As LogOn, but the lines go to every active log
LogOnAllActive(logs, lines) ==
    IF logs.active = <<>>
    THEN [result |-> "KeyError", logs |-> logs]
    ELSE [result |-> "None",
          logs |-> [logs EXCEPT !.active =
                      [n \in DOMAIN @ |-> <<@[n][1], @[n][2] \o lines>>]]]

\* OLPMixin.log
LogOn(logs, lines) ==
    IF logs.active = <<>>
    THEN [result |-> "KeyError", logs |-> logs]
    ELSE LET it == PopItem(logs.active)
         IN  [result |-> "None",
              logs |-> [logs EXCEPT !.active =
                          SetItem(it.rest, it.item[1], it.item[2] \o lines)]]

\* As GetLogOn, but the active logs are looked at as well
GetLogOnActiveToo(logs, name, raw) ==
    LET all == logs.active \o logs.finished
    IN  IF name \notin Keys(all)
        THEN [result |-> "KeyError", value |-> <<"none">>, logs |-> logs]
        ELSE [result |-> "None",
              value |-> IF raw THEN <<"list", Value(all, name)>>
                        ELSE <<"str", Join(Value(all, name))>>,
              logs |-> logs]

\* OLPMixin.get_log: the list of lines when raw, else the lines joined
GetLogOn(logs, name, raw) ==
    IF name \notin Keys(logs.finished)
    THEN [result |-> "KeyError", value |-> <<"none">>, logs |-> logs]
    ELSE [result |-> "None",
          value |-> IF raw THEN <<"list", Value(logs.finished, name)>>
                    ELSE <<"str", Join(Value(logs.finished, name))>>,
          logs |-> logs]

\* As GetLastLogOn, but the item popped is not put back
GetLastLogOnPops(logs, raw) ==
    IF logs.finished = <<>>
    THEN [result |-> "KeyError", value |-> <<"none">>, logs |-> logs]
    ELSE LET it == PopItem(logs.finished)
         IN  [result |-> "None",
              value |-> IF raw THEN <<"list", it.item[2]>>
                        ELSE <<"str", Join(it.item[2])>>,
              logs |-> [logs EXCEPT !.finished = it.rest]]

\* OLPMixin.get_last_log: the last item is popped and put straight back
GetLastLogOn(logs, raw) ==
    IF logs.finished = <<>>
    THEN [result |-> "KeyError", value |-> <<"none">>, logs |-> logs]
    ELSE LET it == PopItem(logs.finished)
         IN  [result |-> "None",
              value |-> IF raw THEN <<"list", it.item[2]>>
                        ELSE <<"str", Join(it.item[2])>>,
              logs |-> [logs EXCEPT !.finished =
                          SetItem(it.rest, it.item[1], it.item[2])]]

\* The caller's record of the logs: a log is open from its start_log to the
\* end_log that follows the start of no later open log
Restrict(f, k) ==
    [n \in DOMAIN f \ {k} |-> f[n]]

LastStarted(h) ==
    CHOOSE n \in DOMAIN h.started :
        \A m \in DOMAIN h.started : h.started[m] <= h.started[n]

HistStart(h, name, t) ==
    IF name \in DOMAIN h.started THEN h
    ELSE [h EXCEPT !.started = DictSet(@, name, t),
                   !.lines = DictSet(@, name, <<>>)]

HistLog(h, lines) ==
    IF DOMAIN h.started = {} THEN h
    ELSE [h EXCEPT !.lines[LastStarted(h)] = @ \o lines]

HistEnd(h, t) ==
    IF DOMAIN h.started = {} THEN h
    ELSE [started |-> Restrict(h.started, LastStarted(h)),
          lines |-> Restrict(h.lines, LastStarted(h)),
          ended |-> DictSet(h.ended, LastStarted(h),
                            [at |-> t, lines |-> h.lines[LastStarted(h)]])]

\* A log operation on instance i with outcome r
LogStep(i, op, r, hist) ==
    /\ nops < MaxLogOps
    /\ active_logs' = [active_logs EXCEPT ![i] = r.logs.active]
    /\ finished_logs' = [finished_logs EXCEPT ![i] = r.logs.finished]
    /\ log_hist' = [log_hist EXCEPT ![i] = hist]
    /\ nops' = nops + 1
    /\ UNCHANGED permvars

StartLog(i, name) ==
    LET r == StartLogOn(LogsOf(i), name)
    IN  /\ LogStep(i, "start_log", r, HistStart(log_hist[i], name, nops + 1))
        /\ last' = [NoCall EXCEPT !.op = "start_log", !.inst = i,
                      !.name = name, !.result = r.result,
                      !.logs = LogsOf(i), !.hist = log_hist[i]]

EndLog(i) ==
    LET r == EndLogOn(LogsOf(i))
    IN  /\ LogStep(i, "end_log", r, HistEnd(log_hist[i], nops + 1))
        /\ last' = [NoCall EXCEPT !.op = "end_log", !.inst = i,
                      !.name = r.name, !.result = r.result,
                      !.logs = LogsOf(i), !.hist = log_hist[i]]

Log(i, lines) ==
    LET r == LogOn(LogsOf(i), lines)
    IN  /\ LogStep(i, "log", r, HistLog(log_hist[i], lines))
        /\ last' = [NoCall EXCEPT !.op = "log", !.inst = i,
                      !.lines = lines, !.result = r.result,
                      !.logs = LogsOf(i), !.hist = log_hist[i]]

GetLog(i, name, raw) ==
    LET r == GetLogOn(LogsOf(i), name, raw)
    IN  /\ LogStep(i, "get_log", r, log_hist[i])
        /\ last' = [NoCall EXCEPT !.op = "get_log", !.inst = i,
                      !.name = name, !.raw = raw, !.result = r.result,
                      !.value = r.value,
                      !.logs = LogsOf(i), !.hist = log_hist[i]]

GetLastLog(i, raw) ==
    LET r == GetLastLogOn(LogsOf(i), raw)
    IN  /\ LogStep(i, "get_last_log", r, log_hist[i])
        /\ last' = [NoCall EXCEPT !.op = "get_last_log", !.inst = i,
                      !.raw = raw, !.result = r.result, !.value = r.value,
                      !.logs = LogsOf(i), !.hist = log_hist[i]]

\* ---------------------------------------------------------- specifications
\* What the two access functions of perm do when called
FnOf(perm, fu, fg) ==
    [k \in {AccessFnName("user", perm), AccessFnName("group", perm)} |->
        IF k = AccessFnName("user", perm) THEN fu ELSE fg]

\* getattr(obj, access_fn_name, None): nothing when the class of obj does
\* not define the function, else one of the given outcomes of calling it
OutcomesOn(obj, from_name, perm, called) ==
    IF <<EntType(obj), AccessFnName(from_name, perm)[1],
         AccessFnName(from_name, perm)[2]>> \in access_fns
    THEN called ELSE {"absent"}

\* The access functions OPTest may define: those for "delete"
OPTestFns == {"optest"} \X Sources \X {"delete_optest"}

Grants == {{}, Perms}

OutcomesOne == {"True", "False", "error"}

\* The operations of the specifications, on instance i with access
\* functions that do one of `called` when called
Check(i, called) ==
    \E db \in Grants,
       fu \in OutcomesOn("e1", "user", DeleteOPTest, called),
       fg \in OutcomesOn("e1", "group", DeleteOPTest, called) :
        HasPerm(i, DeleteOPTest, "e1", db, FnOf(DeleteOPTest, fu, fg))

Collect(i, called) ==
    \E db \in Grants, from_name \in {"user", "group", "both"},
       fu \in OutcomesOn("e1", "user", DeleteOPTest, called),
       fg \in OutcomesOn("e1", "group", DeleteOPTest, called),
       vu \in OutcomesOn("e1", "user", ViewOPTest, called),
       vg \in OutcomesOn("e1", "group", ViewOPTest, called) :
        GetPermissions(i, "e1", from_name, db,
                       DictUpdate(FnOf(DeleteOPTest, fu, fg),
                               FnOf(ViewOPTest, vu, vg)))

Flag(i) ==
    \E b \in BOOLEAN : SetActive(i, b) \/ SetSuperuser(i, b)

Reload(i) ==
    \E active \in BOOLEAN, super \in BOOLEAN : Load(i, uid[i], active, super)

\* Spec: permission checks on one user instance whose flags change under it
Init ==
    InitInsts(OPTestFns, {"u1"}, BOOLEAN, BOOLEAN)
    /\ is_active["i2"] /\ ~is_superuser["i2"]

Next ==
    \/ Check("i1", OutcomesOne)
    \/ Flag("i1")
    \/ ClearPermCache("i1")

Spec == Init /\ [][Next]_vars

\* SpecInsts: two instances of the same stored user, checked, queried for
\* their permission sets, cleared and loaded again
OutcomesInsts == {"True", "False"}

InitTwo ==
    InitInsts({<<"optest", "user", "delete_optest">>}, {"u1"}, {TRUE}, {FALSE})

NextInsts ==
    \E i \in Insts :
        \/ Check(i, OutcomesInsts)
        \/ Collect(i, OutcomesInsts)
        \/ ClearPermCache(i)
        \/ Reload(i)

SpecInsts == InitTwo /\ [][NextInsts]_vars

\* SpecPerms: the permission sets of one user instance, asked for with and
\* without an object, between permission checks and flag changes
CollectNone(i) ==
    \E db \in Grants, from_name \in {"user", "group", "both"},
       none \in {"absent"} :
        GetPermissions(i, NoObj, from_name, db,
                       DictUpdate(FnOf(DeleteOPTest, none, none),
                                  FnOf(ViewOPTest, none, none)))

NextPerms ==
    \/ Collect("i1", OutcomesOne)
    \/ CollectNone("i1")
    \/ Flag("i1")

SpecPerms == Init /\ [][NextPerms]_vars

\* SpecAny: permission checks with a permission of the object's model, of
\* another model and of no model, on objects of two models
NotARealPermission == <<"tests", "not_a_real_permission">>

\* The access functions OPTest may define here; ArchivableTest defines none
AnyFns ==
    {<<"optest", "user", "delete_optest">>,
     <<"optest", "user", "not_a_real_permission">>}

CheckAny(i, called) ==
    \E perm \in {DeleteOPTest, NotARealPermission}, obj \in Entities,
       db \in Grants :
        \E fu \in OutcomesOn(obj, "user", perm, called),
           fg \in OutcomesOn(obj, "group", perm, called) :
            HasPerm(i, perm, obj, db, FnOf(perm, fu, fg))

InitAny ==
    InitInsts(AnyFns, {"u1"}, BOOLEAN, BOOLEAN)
    /\ is_active["i2"] /\ ~is_superuser["i2"]

NextAny ==
    \/ CheckAny("i1", OutcomesOne)
    \/ Flag("i1")
    \/ ClearPermCache("i1")

SpecAny == InitAny /\ [][NextAny]_vars

\* SpecQuery: permission checks and permission sets asked of one active user
\* instance that is not a superuser
InitQuery ==
    InitInsts(OPTestFns, {"u1"}, {TRUE}, {FALSE})

NextQuery ==
    \/ Check("i1", OutcomesInsts)
    \/ Collect("i1", OutcomesInsts)
    \/ ClearPermCache("i1")

SpecQuery == InitQuery /\ [][NextQuery]_vars

\* SpecFalsy: permission checks on an object whose access functions, when
\* defined, return True or one of the values Python takes for false
OutcomesFalsy == {"True", "False", "0", "None"}

NextFalsy ==
    \/ Check("i1", OutcomesFalsy)
    \/ ClearPermCache("i1")

SpecFalsy == InitQuery /\ [][NextFalsy]_vars

\* SpecRaise: permission checks and permission sets on an object whose
\* access functions, when defined, return or raise: PermissionDenied
\* ("deny") or any other exception ("error")
OutcomesRaise == {"True", "deny", "error"}

NextRaise ==
    \/ Check("i1", OutcomesRaise)
    \/ Collect("i1", OutcomesRaise)

SpecRaise == InitQuery /\ [][NextRaise]_vars

\* SpecValues: permission checks on an object whose access functions, when
\* defined, return any of the Python values, booleans or not
NextValues ==
    \/ Check("i1", PyValues)
    \/ ClearPermCache("i1")

SpecValues == InitQuery /\ [][NextValues]_vars

\* SpecView: requests to views decorated with permission_required.  The
\* views take the primary key of an OPTest object as "pk" and of another as
\* "other", and no "slug"; OPTest may define the user access function for
\* "delete".
MalformedPermission == <<"delete_optest">>

ViewPerms ==
    {<<<<DeleteOPTest, "pk">>>>,
     <<<<ViewOPTest>>, <<DeleteOPTest, "pk">>>>,
     <<<<DeleteOPTest, "pk">>, <<ViewOPTest, "other">>>>,
     <<<<NotARealPermission, "pk">>, <<ViewOPTest, "other">>>>,
     <<<<MalformedPermission, "pk">>, <<ViewOPTest, "other">>>>,
     <<<<MalformedPermission, "slug">>>>}

ViewFns == {<<"optest", "user", "delete_optest">>}

View(i) ==
    \E perms \in ViewPerms, pk \in {"1", "2"}, raise_exception \in BOOLEAN,
       db \in Grants :
        \E fu \in OutcomesOn("e1", "user", DeleteOPTest, OutcomesOne),
           fg \in OutcomesOn("e1", "group", DeleteOPTest, {"absent"}),
           vu \in OutcomesOn("e1", "user", ViewOPTest, OutcomesOne),
           vg \in OutcomesOn("e1", "group", ViewOPTest, OutcomesOne) :
            Request(i, perms,
                    [k \in {"pk", "other"} |-> IF k = "pk" THEN pk ELSE "1"],
                    raise_exception, db,
                    DictUpdate(FnOf(DeleteOPTest, fu, fg),
                               FnOf(ViewOPTest, vu, vg)))

InitView ==
    InitInsts(ViewFns, {"u1"}, BOOLEAN, BOOLEAN)
    /\ is_active["i2"] /\ ~is_superuser["i2"]

NextView ==
    \/ View("i1")
    \/ Flag("i1")

SpecView == InitView /\ [][NextView]_vars

\* SpecLogs: the logs of one user instance
InitLogs ==
    InitInsts({}, {"u1"}, {TRUE}, {FALSE})

NextLogs ==
    \/ \E name \in LogNames : StartLog("i1", name)
    \/ EndLog("i1")
    \/ \E lines \in LogArgs : Log("i1", lines)
    \/ \E name \in LogNames, raw \in BOOLEAN : GetLog("i1", name, raw)
    \/ \E raw \in BOOLEAN : GetLastLog("i1", raw)

SpecLogs == InitLogs /\ [][NextLogs]_vars

\* ------------------------------------------------------------------ claims
\* The tri-state decision a cached or computed access value stands for
DecisionOf(access) ==
    IF access = Raise THEN "Defect"
    ELSE IF Truthy(access) THEN "Granted"
    ELSE IF access = "None" THEN "NoOpinion"
    ELSE "Denied"

Decisions == {"Granted", "Denied", "NoOpinion"}

\* The decision of one source in the last has_perm call, resolved or not
SourceDecision(from_name) ==
    DecisionOf(GetObjectPermission(last.pre, last.perm, last.obj, from_name,
                                   last.db, last.fn).access)

\* The last has_perm call skipped the backends for an active superuser
Bypassed ==
    ~universal /\ last.pre.is_active /\ last.pre.is_superuser

\* user.has_perm(perm) was true when the last call started
HeldModelPerm ==
    ModelHasPerm(last.pre, last.perm, last.db).holds

\* What an access function of the last call's object was set to do
FnOutcome(from_name) ==
    last.fn[AccessFnName(from_name, last.perm)]

\* The last call found a decision of the source in the cache
WasCached(from_name) ==
    PermCacheName(from_name, last.perm, last.obj) \in DOMAIN last.pre.olp_cache

GrantRule(ud, gd) ==
    ud = "Granted" \/ gd = "Granted" \/ (ud = "NoOpinion" /\ gd = "NoOpinion")

C2_InactiveDenied ==
    (last.op = "has_perm" /\ ~last.pre.is_active)
    => /\ last.result = "False"
       /\ last.events = <<>>
       /\ olp_cache[last.inst] = last.pre.olp_cache

C2_Witness ==
    /\ last.op = "has_perm" /\ ~last.pre.is_active
    /\ last.pre.olp_cache # EmptyCache
    /\ last.db = Perms
    /\ FnOutcome("user") = "True"
    /\ last.result = "False"

\* C3 as stated: a principal without the model-level permission is denied on
\* every entity, whatever the access functions would return.
C3_Original ==
    (last.op = "has_perm" /\ ~HeldModelPerm) => last.result = "False"

\* C3: a principal without the model-level permission, with no decision for
\* the permission and entity in its cache, is denied whatever the access
\* functions would return.
C3_NoModelPermDenied ==
    (last.op = "has_perm" /\ ~HeldModelPerm
     /\ ~WasCached("user") /\ ~WasCached("group"))
    => last.result = "False"

C3_Witness ==
    /\ last.op = "has_perm" /\ last.pre.is_active /\ ~HeldModelPerm
    /\ ~WasCached("user") /\ ~WasCached("group")
    /\ FnOutcome("user") = "True"
    /\ last.result = "False"

\* C4 as stated: every superuser in non-universal mode is granted, whatever
\* the model-level grants, and no access function is called.
C4_Original ==
    (last.op = "has_perm" /\ last.pre.is_superuser /\ ~universal)
    => (last.result = "True" /\ FnCalls(last.events) = {})

\* C4: every active superuser in non-universal mode is granted, whatever the
\* model-level grants, and no access function is called.
C4_ActiveSuperuserGranted ==
    (last.op = "has_perm" /\ last.pre.is_superuser /\ last.pre.is_active
     /\ ~universal)
    => (last.result = "True" /\ FnCalls(last.events) = {})

C4_Witness ==
    /\ last.op = "has_perm" /\ last.pre.is_superuser /\ last.pre.is_active
    /\ ~universal
    /\ last.db = {}
    /\ FnOutcome("user") = "False" /\ FnOutcome("group") = "False"
    /\ last.result = "True"

C7_UserGrantShortCircuits ==
    (last.op = "has_perm" /\ SourceDecision("user") = "Granted")
    => /\ last.result = "True"
       /\ \A n \in DOMAIN last.events :
            /\ last.events[n] # <<"fn", "group", last.perm>>
            /\ last.events[n]
                 # <<"store", PermCacheName("group", last.perm, last.obj)>>
       /\ (PermCacheName("group", last.perm, last.obj)
             \in DOMAIN olp_cache[last.inst]) <=> WasCached("group")

C7_Witness ==
    /\ last.op = "has_perm" /\ ~Bypassed
    /\ SourceDecision("user") = "Granted"
    /\ ~WasCached("user") /\ ~WasCached("group")
    /\ FnOutcome("group") = "False"
    /\ last.result = "True"

\* C8 as stated: across the has_perm calls on one instance between two cache
\* resets, each access function of an entity is called at most once.
C8_Original ==
    \A i \in Insts : \A k \in DOMAIN ninv[i] : ninv[i][k] <= 1

\* C8: across the has_perm calls on one instance between two cache resets, an
\* access function whose call returned is not called again: later calls are
\* answered from the cache.  (A call that failed cached nothing.)
C8_CalledOnceUnlessFailed ==
    \A i \in Insts : reinv[i] = {}

C8_Witness ==
    /\ last.op = "has_perm" /\ ~Bypassed /\ last.pre.is_active
    /\ WasCached("user")
    /\ HeldModelPerm
    /\ FnOutcome("user") = "True"
    /\ last.events = <<>>
    /\ Count(ninv[last.inst], <<"user", last.perm, last.obj>>) = 1

\* C9: a decision in the cache keeps its value through every has_perm and
\* get_*_permissions call, whatever the access functions or the model-level
\* grants have become, and is not resolved again; only clearing the cache or
\* loading the user again removes it.
C9_CachedDecisionKept ==
    [][\A i \in Insts : \A k \in DOMAIN olp_cache[i] :
         \/ last'.op \in {"clear_perm_cache", "load"} /\ last'.inst = i
         \/ /\ k \in DOMAIN olp_cache'[i]
            /\ olp_cache'[i][k] = olp_cache[i][k]
            /\ (last'.inst = i /\ last' # last)
                 => \A n \in DOMAIN last'.events :
                        last'.events[n] # <<"store", k>>]_vars

C9_Witness ==
    /\ last.op = "has_perm" /\ last.pre.is_active /\ ~Bypassed
    /\ WasCached("user")
    /\ last.pre.olp_cache[PermCacheName("user", last.perm, last.obj)] = "True"
    /\ FnOutcome("user") = "False"
    /\ olp_cache[last.inst][PermCacheName("user", last.perm, last.obj)] = "True"
    /\ last.result = "True"

\* C10: caches belong to instances.  Every instance starts with an empty
\* cache, also when loaded again, and an operation on one instance leaves the
\* cache of every other instance as it was, also when both denote the same
\* stored user.
C10_CachePerInstance ==
    /\ \A i \in Insts : olp_cache[i] = EmptyCache
    /\ [][/\ last'.op = "load" => olp_cache'[last'.inst] = EmptyCache
          /\ \A j \in Insts \ {last'.inst} : olp_cache'[j] = olp_cache[j]]_vars

C10_Witness ==
    /\ last.op \in {"has_perm", "get_permissions"}
    /\ \A i \in Insts : uid[i] = "u1"
    /\ \E i \in Insts \ {last.inst} :
         /\ olp_cache[i] # EmptyCache
         /\ last.pre.olp_cache = EmptyCache
         /\ olp_cache[last.inst] # EmptyCache
         /\ olp_cache[last.inst] # olp_cache[i]

\* C11: clear_perm_cache leaves the instance with an empty object-level cache
\* and no model-level cache, also when it fails on the del statements.  The
\* has_perm call that follows on an active principal that is not let through
\* as a superuser reads no cached decision: it starts with the model-level
\* check, answered from storage, calls the user access function when the
\* permission is held and the function is defined, and its result follows
\* from these, not from what was cached before.
C11_ClearedThenResolved ==
    [][/\ last'.op = "clear_perm_cache"
            => /\ olp_cache'[last'.inst] = EmptyCache
               /\ perm_cache'[last'.inst] = NoPermCache
       /\ (last.op = "clear_perm_cache" /\ last'.op = "has_perm"
           /\ last'.inst = last.inst /\ last'.pre.is_active /\ ~Bypassed')
            => /\ last'.events # <<>>
               /\ last'.events[1] = <<"has_perm", last'.perm>>
               /\ HeldModelPerm'
                    <=> (last'.pre.is_superuser \/ last'.perm \in last'.db)
               /\ (HeldModelPerm' /\ FnOutcome("user")' # "absent")
                    => /\ Len(last'.events) >= 2
                       /\ last'.events[2] = <<"fn", "user", last'.perm>>
               /\ (HeldModelPerm' /\ FnOutcome("user")' = "True")
                    => last'.result = "True"
               /\ ~HeldModelPerm' => last'.result = "False"]_vars

C11_Witness ==
    /\ last.op = "clear_perm_cache"
    /\ last.pre.is_active /\ ~last.pre.is_superuser
    /\ PermCacheName("user", DeleteOPTest, "e1") \in DOMAIN last.pre.olp_cache
    /\ last.pre.olp_cache[PermCacheName("user", DeleteOPTest, "e1")] = "False"
    /\ olp_cache[last.inst] = EmptyCache
    /\ last.result = "None"

\* C12: get_user_permissions, get_group_permissions and get_all_permissions
\* return the empty set when no object is given or the principal is
\* inactive, whatever the principal holds at the model level: nothing is
\* looked up and the cache stays as it was.
C12_NoObjectOrInactiveEmpty ==
    (last.op = "get_permissions"
     /\ (last.obj = NoObj \/ ~last.pre.is_active))
    => /\ last.result = "set"
       /\ last.perms = {}
       /\ last.events = <<>>
       /\ olp_cache[last.inst] = last.pre.olp_cache

C12_Witness ==
    /\ last.op = "get_permissions"
    /\ ~last.pre.is_active /\ last.pre.is_superuser
    /\ last.obj = "e1" /\ last.from_name = "group"
    /\ last.db = Perms
    /\ last.fn[AccessFnName("group", DeleteOPTest)] = "True"
    /\ last.perms = {}

\* C13: for an active superuser, unless DJEM_UNIVERSAL_OLP is set, the three
\* get_*_permissions calls on an object return every permission of the
\* object's model, whatever storage grants the user and whatever the access
\* functions would return; no access function is called.
C13_SuperuserFullCatalog ==
    (last.op = "get_permissions" /\ last.obj = "e1"
     /\ last.pre.is_active /\ last.pre.is_superuser /\ ~universal)
    => /\ last.result = "set"
       /\ last.perms = {ViewOPTest, DeleteOPTest}
       /\ FnCalls(last.events) = {}

C13_Witness ==
    /\ last.op = "get_permissions" /\ last.obj = "e1"
    /\ last.pre.is_active /\ last.pre.is_superuser /\ ~universal
    /\ last.from_name = "user"
    /\ last.db = {}
    /\ last.fn[AccessFnName("user", DeleteOPTest)] = "False"
    /\ last.perms = {ViewOPTest, DeleteOPTest}

\* C14: when get_all_permissions returns for an active principal, a
\* permission of the object's model is in the set exactly when has_perm for
\* that permission and object is true, asked in place of the call (same
\* cache, grants and access functions) or right after it.
C14_SetAgreesWithHasPerm ==
    (last.op = "get_permissions" /\ last.from_name = "both"
     /\ last.obj = "e1" /\ last.pre.is_active /\ last.result = "set")
    => \A n \in DOMAIN PermsForModel("optest") :
         LET perm == PermsForModel("optest")[n]
         IN  /\ (perm \in last.perms)
                  <=> UserHasPerm(last.pre, perm, last.obj, last.db, last.fn,
                                  universal).result = "True"
             /\ (perm \in last.perms)
                  <=> UserHasPerm(UserObj(last.inst), perm, last.obj, last.db,
                                  last.fn, universal).result = "True"

C14_Witness ==
    /\ last.op = "get_permissions" /\ last.from_name = "both"
    /\ last.obj = "e1" /\ last.pre.is_active /\ ~last.pre.is_superuser
    /\ last.pre.olp_cache = EmptyCache
    /\ last.db = Perms
    /\ last.fn[AccessFnName("user", DeleteOPTest)] = "False"
    /\ last.fn[AccessFnName("group", DeleteOPTest)] = "False"
    /\ last.perms = {ViewOPTest}

\* The source get_user_permissions / get_group_permissions leaves out
SkippedSource ==
    IF last.from_name = "user" THEN "group" ELSE "user"

\* The last call neither called an access function of the source nor wrote
\* a cache entry under a key of the source
SourceUntouched(from_name) ==
    /\ \A n \in DOMAIN last.events :
         /\ last.events[n][1] = "fn" => last.events[n][2] # from_name
         /\ last.events[n][1] = "store" => last.events[n][2][1] # from_name
    /\ \A k \in DOMAIN olp_cache[last.inst] :
         k[1] = from_name
           => (k \in DOMAIN last.pre.olp_cache
               /\ last.pre.olp_cache[k] = olp_cache[last.inst][k])

\* After the last call the cache holds an entry of the source for every
\* permission of the object's model
SourceCachedForAll(from_name) ==
    \A n \in DOMAIN PermsForModel(EntType(last.obj)) :
        PermCacheName(from_name, PermsForModel(EntType(last.obj))[n], last.obj)
          \in DOMAIN olp_cache[last.inst]

\* C15 as stated: get_user_permissions never touches the group source and
\* get_group_permissions never touches the user source, and the cache holds
\* an entry of the requested source for every permission of the model
\* afterwards.
C15_Original ==
    (last.op = "get_permissions" /\ last.from_name \in Sources
     /\ last.obj = "e1")
    => /\ SourceUntouched(SkippedSource)
       /\ SourceCachedForAll(last.from_name)

\* C15: get_user_permissions never touches the group source and
\* get_group_permissions never touches the user source; when the call
\* returns for an active principal that is not given the full set as a
\* superuser, the cache holds an entry of the requested source for every
\* permission of the model.
C15_OnlyRequestedSource ==
    (last.op = "get_permissions" /\ last.from_name \in Sources
     /\ last.obj = "e1")
    => /\ SourceUntouched(SkippedSource)
       /\ (last.pre.is_active /\ ~Bypassed /\ last.result = "set")
            => SourceCachedForAll(last.from_name)

C15_Witness ==
    /\ last.op = "get_permissions" /\ last.from_name = "group"
    /\ last.obj = "e1" /\ last.pre.is_active /\ ~Bypassed
    /\ last.pre.olp_cache = EmptyCache
    /\ last.db = Perms
    /\ last.fn[AccessFnName("user", DeleteOPTest)] = "True"
    /\ last.fn[AccessFnName("group", DeleteOPTest)] = "False"
    /\ last.perms = {ViewOPTest}
    /\ SourceCachedForAll("group")
    /\ \A k \in DOMAIN olp_cache[last.inst] : k[1] = "group"

\* The permission of the last call is one of the model of its object
InCatalog ==
    last.perm \in SeqToSet(PermsForModel(EntType(last.obj)))

\* C16 as stated, for principals that are not superusers: has_perm with a
\* permission that is not one of the model of the object, such as a
\* permission of another model, returns false, also when the principal holds
\* the permission at the model level.
C16_ForeignPermissionDenied ==
    (last.op = "has_perm" /\ ~InCatalog /\ ~last.pre.is_superuser)
    => last.result = "False"

\* C17 as stated: has_perm with a permission name that no model defines
\* returns false, for every principal, and does not raise.
C17_Original ==
    (last.op = "has_perm" /\ last.perm = NotARealPermission)
    => last.result = "False"

\* C17: has_perm with a permission name that no model defines returns false
\* and calls no access function, for every principal that is not an active
\* superuser and has no decision for the name and object in its cache.
C17_UnknownPermissionDenied ==
    (last.op = "has_perm" /\ last.perm = NotARealPermission
     /\ ~(last.pre.is_active /\ last.pre.is_superuser)
     /\ ~WasCached("user") /\ ~WasCached("group"))
    => /\ last.result = "False"
       /\ FnCalls(last.events) = {}

C17_Witness ==
    /\ last.op = "has_perm" /\ last.perm = NotARealPermission
    /\ last.pre.is_active /\ ~last.pre.is_superuser
    /\ ~WasCached("user") /\ ~WasCached("group")
    /\ last.obj = "e1"
    /\ last.db = Perms
    /\ FnOutcome("user") = "True"
    /\ last.result = "False"

\* C18: has_perm on an inactive principal returns false before anything else
\* is looked at: also for a superuser, also with a grant for the permission
\* and object in the cache; the model-level permissions are not loaded.
C18_InactiveDeniedBeforeAll ==
    (last.op = "has_perm" /\ ~last.pre.is_active)
    => /\ last.result = "False"
       /\ perm_cache[last.inst] = last.pre.perm_cache
       /\ \A n \in DOMAIN last.events : last.events[n][1] # "has_perm"

C18_Witness ==
    /\ last.op = "has_perm" /\ ~last.pre.is_active
    /\ last.pre.is_superuser
    /\ WasCached("user")
    /\ last.pre.olp_cache[PermCacheName("user", last.perm, last.obj)] = "True"
    /\ last.result = "False"

\* What the access function of a source of the last call stands for, when
\* it is called and returns
FnDecision(from_name) ==
    DecisionOf(AccessOf(FnOutcome(from_name)))

\* C19: with DJEM_UNIVERSAL_OLP an active superuser is not let through.  On
\* an empty cache the model-level check passes whatever storage grants, and
\* has_perm returns what the access functions decide: true when the user
\* function grants, else true exactly when the group function grants or
\* neither is defined.
C19_UniversalSuperuserResolved ==
    (last.op = "has_perm" /\ universal
     /\ last.pre.is_active /\ last.pre.is_superuser
     /\ last.pre.olp_cache = EmptyCache)
    => /\ HeldModelPerm
       /\ FnOutcome("user") = "error" => last.result = Raise
       /\ FnDecision("user") = "Granted" => last.result = "True"
       /\ (FnOutcome("user") # "error" /\ FnDecision("user") # "Granted"
           /\ FnOutcome("group") # "error")
            => /\ last.result \in {"True", "False"}
               /\ (last.result = "True")
                    <=> GrantRule(FnDecision("user"), FnDecision("group"))

C19_Witness ==
    /\ last.op = "has_perm" /\ universal
    /\ last.pre.is_active /\ last.pre.is_superuser
    /\ last.pre.olp_cache = EmptyCache
    /\ last.db = {}
    /\ FnOutcome("user") = "False" /\ FnOutcome("group") = "absent"
    /\ last.result = "False"

\* One access function of the last call denies and the other is not
\* defined; the call resolved both on an empty cache with the model-level
\* permission held
DenialAndNoOpinion ==
    /\ last.op = "has_perm" /\ last.pre.is_active /\ ~Bypassed
    /\ last.pre.olp_cache = EmptyCache
    /\ HeldModelPerm
    /\ \/ FnOutcome("user") = "False" /\ FnOutcome("group") = "absent"
       \/ FnOutcome("user") = "absent" /\ FnOutcome("group") = "False"

\* C20 as stated: when one source denies and the other has no access
\* function, has_perm returns true.
C20_Original ==
    DenialAndNoOpinion => last.result = "True"

\* C20: when one source denies and the other has no access function,
\* has_perm returns false.
C20_DenialWithNoOpinionDenies ==
    DenialAndNoOpinion => last.result = "False"

C20_Witness ==
    /\ DenialAndNoOpinion
    /\ ~last.pre.is_superuser
    /\ FnOutcome("user") = "absent" /\ FnOutcome("group") = "False"
    /\ last.result = "False"

\* The principal of the last call as a newly constructed instance with the
\* same flags: nothing cached, no call made before
FreshPrincipal ==
    [last.pre EXCEPT !.olp_cache = EmptyCache, !.perm_cache = NoPermCache]

\* What has_perm returns for the inputs of the last call when no call
\* preceded it
FreshResult ==
    UserHasPerm(FreshPrincipal, last.perm, last.obj, last.db, last.fn,
                universal).result

LogsNow ==
    LogsOf(last.inst)

\* The log that log() and end_log() act on now
CurrentLog ==
    PopItem(LogsNow.active).item[1]

\* C22: start_log with the name of a log that was started and not ended
\* raises ValueError and leaves the active logs, their lines and order, and
\* the finished logs as they were; with any other name it adds an empty log
\* after the active ones, which is then the current log.
C22_StartLog ==
    last.op = "start_log"
    => IF last.name \in DOMAIN last.hist.started
       THEN /\ last.result = "ValueError"
            /\ LogsNow = last.logs
       ELSE /\ last.result = "None"
            /\ LogsNow.active = Append(last.logs.active, <<last.name, <<>>>>)
            /\ LogsNow.finished = last.logs.finished
            /\ CurrentLog = last.name

C22_Witness ==
    /\ last.op = "start_log" /\ last.result = "ValueError"
    /\ Len(LogsNow.active) = 2
    /\ LogsNow.active[1] = <<last.name, <<"a">>>>
    /\ LogsNow = last.logs

\* C23: end_log ends the log that was started last among those started and
\* not yet ended, whatever log() calls came in between: that log leaves the
\* active logs, the others stay in their order, and get_log then returns it
\* under its name with the lines logged to it.  (With no log active,
\* end_log raises KeyError and changes nothing.)
C23_EndLogLastStartedFirst ==
    last.op = "end_log"
    => IF DOMAIN last.hist.started = {}
       THEN /\ last.result = "KeyError"
            /\ LogsNow = last.logs
       ELSE /\ last.result = "None"
            /\ last.name = LastStarted(last.hist)
            /\ LogsNow.active
                 = SelectSeq(last.logs.active, LAMBDA it : it[1] # last.name)
            /\ Len(LogsNow.active) = Len(last.logs.active) - 1
            /\ GetLogOn(LogsNow, last.name, TRUE).result = "None"
            /\ GetLogOn(LogsNow, last.name, TRUE).value
                 = <<"list", last.hist.lines[last.name]>>

C23_Witness ==
    /\ last.op = "end_log" /\ last.result = "None"
    /\ Len(last.logs.active) = 2
    /\ last.logs.active[1][2] # <<>>
    /\ last.hist.lines[last.name] = <<"b", "a">>
    /\ last.hist.started[last.name] > last.hist.started[last.logs.active[1][1]]
    /\ Keys(LogsNow.active) = LogNames \ {last.name}

\* C24: get_log raises KeyError for a name whose log was never ended, be it
\* never started or started and still active; for any other name it returns
\* the lines logged between the start and the end of the log of that name
\* that was ended last, in the order logged: as the list when raw, else
\* joined by newlines.  The logs are left as they were.
C24_GetLogAfterEnd ==
    last.op = "get_log"
    => /\ LogsNow = last.logs
       /\ IF last.name \in DOMAIN last.hist.ended
          THEN /\ last.result = "None"
               /\ last.raw
                    => last.value
                         = <<"list", last.hist.ended[last.name].lines>>
               /\ ~last.raw
                    => last.value
                         = <<"str", Join(last.hist.ended[last.name].lines)>>
          ELSE last.result = "KeyError"

C24_Witness ==
    /\ last.op = "get_log" /\ last.result = "None" /\ ~last.raw
    /\ last.hist.ended[last.name].lines = <<"a", "b", "a">>
    /\ last.value = <<"str", "a\nb\na">>

\* The name whose log was ended last before the last call
LastEnded ==
    CHOOSE n \in DOMAIN last.hist.ended :
        \A m \in DOMAIN last.hist.ended :
            last.hist.ended[m].at <= last.hist.ended[n].at

\* C25: get_last_log raises KeyError when no log was ended; otherwise it
\* returns the lines of the log that was ended last (the list when raw, else
\* joined by newlines).  The finished and active logs, their lines and order
\* are as before the call, and calling again returns the same.
C25_GetLastLog ==
    last.op = "get_last_log"
    => /\ LogsNow = last.logs
       /\ GetLastLogOn(LogsNow, last.raw).value = last.value
       /\ IF DOMAIN last.hist.ended = {}
          THEN last.result = "KeyError"
          ELSE /\ last.result = "None"
               /\ last.raw
                    => last.value
                         = <<"list", last.hist.ended[LastEnded].lines>>
               /\ ~last.raw
                    => last.value
                         = <<"str", Join(last.hist.ended[LastEnded].lines)>>

C25_Witness ==
    /\ last.op = "get_last_log" /\ last.result = "None" /\ last.raw
    /\ Len(LogsNow.finished) = 2
    /\ LogsNow.finished[1][2] = <<"b", "a">>
    /\ last.value = <<"list", <<>>>>
    /\ LogsNow = last.logs

\* C26: log appends its arguments, in their order, to the lines of the log
\* that was started last among those not ended, and to no other: the other
\* active logs, the order of the active logs and the finished logs are as
\* before, and the same log is the current one afterwards.  (With no log
\* active, log raises KeyError and changes nothing.)
C26_LogAppendsToCurrent ==
    last.op = "log"
    => IF DOMAIN last.hist.started = {}
       THEN /\ last.result = "KeyError"
            /\ LogsNow = last.logs
       ELSE /\ last.result = "None"
            /\ LogsNow.finished = last.logs.finished
            /\ Len(LogsNow.active) = Len(last.logs.active)
            /\ \A n \in DOMAIN LogsNow.active :
                 /\ LogsNow.active[n][1] = last.logs.active[n][1]
                 /\ LogsNow.active[n][2]
                      = IF LogsNow.active[n][1] = LastStarted(last.hist)
                        THEN last.logs.active[n][2] \o last.lines
                        ELSE last.logs.active[n][2]
            /\ CurrentLog = LastStarted(last.hist)

C26_Witness ==
    /\ last.op = "log" /\ last.result = "None"
    /\ last.lines = <<"b", "a">>
    /\ Len(LogsNow.active) = 2
    /\ LogsNow.active[1][2] = <<"a">>
    /\ LogsNow.active[2][2] = <<"a", "b", "a">>

\* An entry of perms passes for the user of the last request as it is now:
\* has_perm is true for the permission, on the object the keyword argument
\* names where the entry is a two-tuple
EntryPasses(u, entry) ==
    IF Len(entry) = 1
    THEN ModelHasPerm(u, entry[1], last.db).holds
    ELSE /\ entry[2] \in DOMAIN last.kwargs
         /\ PermModel(entry[1]) # ""
         /\ ObjectOf(PermModel(entry[1]), last.kwargs[entry[2]]) # NoObj
         /\ UserHasPerm(u, entry[1],
                        ObjectOf(PermModel(entry[1]), last.kwargs[entry[2]]),
                        last.db, last.fn, universal).result = "True"

\* The first entry of perms is denied to the user as it was before the last
\* request: the permission is not held, does not exist, or has_perm is false
\* on the object
FirstEntryDenied ==
    LET entry == last.view_perms[1]
        obj == ObjectOf(PermModel(entry[1]), last.kwargs[entry[2]])
    IN  IF Len(entry) = 1
        THEN ~ModelHasPerm(last.pre, entry[1], last.db).holds
        ELSE /\ entry[2] \in DOMAIN last.kwargs
             /\ \/ PermModel(entry[1]) = ""
                \/ /\ obj # NoObj
                   /\ UserHasPerm(last.pre, entry[1], obj, last.db, last.fn,
                                  universal).result = "False"

\* C27: the view behind permission_required is called only when has_perm
\* is true for every entry of perms, on the object named where the entry is
\* a two-tuple.  When a check fails the view is not called: PermissionDenied
\* is raised if raise_exception is set and the redirect to the login page
\* is returned otherwise.
C27_ViewOnlyIfAllPass ==
    last.op = "request"
    => /\ last.result = "view"
            => \A n \in DOMAIN last.view_perms :
                   EntryPasses(UserObj(last.inst), last.view_perms[n])
       /\ last.result \in {"PermissionDenied", "redirect"}
            => /\ \E n \in DOMAIN last.view_perms :
                     ~EntryPasses(UserObj(last.inst), last.view_perms[n])
               /\ (last.result = "PermissionDenied") <=> last.raise_exception
       /\ FirstEntryDenied
            => last.result = IF last.raise_exception THEN "PermissionDenied"
                             ELSE "redirect"

C27_Witness ==
    /\ last.op = "request" /\ last.result = "redirect"
    /\ last.pre.is_active /\ ~last.pre.is_superuser
    /\ last.view_perms = <<<<ViewOPTest>>, <<DeleteOPTest, "pk">>>>
    /\ last.kwargs["pk"] = "1"
    /\ last.db = Perms
    /\ last.fn[AccessFnName("user", DeleteOPTest)] = "False"
    /\ ~last.raise_exception

\* The decision of a source in the last has_perm call, from what the call
\* was given: the cached decision if there was one, else Denied without the
\* model-level permission, else what the access function stands for
ExpectedDecision(from_name) ==
    IF WasCached(from_name)
    THEN DecisionOf(last.pre.olp_cache[
                        PermCacheName(from_name, last.perm, last.obj)])
    ELSE IF ~HeldModelPerm THEN "Denied"
    ELSE FnDecision(from_name)

\* The cache of the instance of the last call holds the decision under the
\* key of the source
CacheHolds(from_name, decision) ==
    /\ PermCacheName(from_name, last.perm, last.obj)
         \in DOMAIN olp_cache[last.inst]
    /\ DecisionOf(olp_cache[last.inst][
                      PermCacheName(from_name, last.perm, last.obj)])
         = decision

\* The last has_perm call returned after resolving the sources
Resolved ==
    /\ last.op = "has_perm" /\ last.pre.is_active /\ ~Bypassed
    /\ last.result # Raise

\* C28 as stated: after has_perm went through resolution the cache holds the
\* user decision under the user key, and holds the group decision under the
\* group key exactly when the user decision was not Granted.
C28_Original ==
    Resolved
    => /\ CacheHolds("user", ExpectedDecision("user"))
       /\ IF ExpectedDecision("user") # "Granted"
          THEN CacheHolds("group", ExpectedDecision("group"))
          ELSE PermCacheName("group", last.perm, last.obj)
                 \notin DOMAIN olp_cache[last.inst]

\* C28: after has_perm went through resolution the cache holds the user
\* decision under the user key, be it Granted, Denied or NoOpinion.  When
\* the user decision was not Granted it holds the group decision under the
\* group key; when it was Granted the call wrote nothing under the group
\* key, which is there only if it was there before.
C28_ResolvedSourcesCached ==
    Resolved
    => /\ CacheHolds("user", ExpectedDecision("user"))
       /\ IF ExpectedDecision("user") # "Granted"
          THEN CacheHolds("group", ExpectedDecision("group"))
          ELSE /\ (PermCacheName("group", last.perm, last.obj)
                     \in DOMAIN olp_cache[last.inst]) <=> WasCached("group")
               /\ WasCached("group")
                    => CacheHolds("group", ExpectedDecision("group"))

C28_Witness ==
    /\ Resolved
    /\ last.pre.olp_cache = EmptyCache
    /\ HeldModelPerm
    /\ FnOutcome("user") = "False" /\ FnOutcome("group") = "absent"
    /\ CacheHolds("user", "Denied")
    /\ CacheHolds("group", "NoOpinion")

\* The access function of the source is defined and returned a falsy value
\* in the last call
FalsyPredicate(from_name) ==
    /\ FnOutcome(from_name) # "absent"
    /\ FnOutcome(from_name) \in PyValues
    /\ ~Truthy(FnOutcome(from_name))

\* C29: a defined access function that returns a falsy value denies: when
\* one source has such a function and the other source has none, has_perm
\* on an empty cache returns False.
C29_FalsyPredicateDenies ==
    (/\ Resolved
     /\ last.pre.olp_cache = EmptyCache
     /\ HeldModelPerm
     /\ \/ FalsyPredicate("user") /\ FnOutcome("group") = "absent"
        \/ FnOutcome("user") = "absent" /\ FalsyPredicate("group"))
    => last.result = "False"

\* C30: a decision cached for one entity is not returned for another one.
\* When has_perm on an empty cache is followed by has_perm of the same
\* instance on a different entity, the second call finds no decision of the
\* user source under its key, whatever the primary keys of the two entities.
C30_KeyAddressesOneEntity ==
    [][(/\ last.op = "has_perm" /\ last.pre.olp_cache = EmptyCache
        /\ last'.op = "has_perm" /\ last'.inst = last.inst
        /\ last'.obj # last.obj
        /\ last'.pre.is_active
        /\ ~(last'.pre.is_superuser /\ ~universal'))
       => PermCacheName("user", last'.perm, last'.obj)
            \notin DOMAIN last'.pre.olp_cache]_vars

\* The access functions with a falsy return in place of PermissionDenied
DenyAsFalse(fn) ==
    [k \in DOMAIN fn |-> IF fn[k] = "deny" THEN "False" ELSE fn[k]]

\* The last has_perm call, had the access functions returned False where
\* they raised PermissionDenied
AsFalsy ==
    UserHasPerm(last.pre, last.perm, last.obj, last.db, DenyAsFalse(last.fn),
                universal)

\* The access function of the source was called in the last call
Invoked(from_name) ==
    <<from_name, last.perm>> \in FnCalls(last.events)

\* C31: PermissionDenied raised by an access function is a denial like a
\* falsy return.  has_perm gives the result and leaves the cache it would
\* with False returned in its place; the call of the function stores False
\* under the key of the source and raises nothing (has_perm raises only
\* when the group function fails after the user function denied); a source
\* found in the cache is not asked again.
C31_ExplicitDenyCached ==
    (/\ last.op = "has_perm" /\ last.pre.is_active /\ ~Bypassed
     /\ \E from_name \in Sources : FnOutcome(from_name) = "deny")
    => /\ last.result = AsFalsy.result
       /\ olp_cache[last.inst] = AsFalsy.user.olp_cache
       /\ \A from_name \in Sources :
             /\ (Invoked(from_name) /\ FnOutcome(from_name) = "deny")
                  => /\ PermCacheName(from_name, last.perm, last.obj)
                          \in DOMAIN olp_cache[last.inst]
                     /\ olp_cache[last.inst][
                            PermCacheName(from_name, last.perm, last.obj)]
                          = "False"
                     /\ last.result = Raise
                          => (from_name = "user"
                              /\ FnOutcome("group") = "error")
             /\ WasCached(from_name) => ~Invoked(from_name)

C31_Witness ==
    /\ last.op = "has_perm" /\ last.pre.is_active /\ ~Bypassed
    /\ last.pre.olp_cache = EmptyCache
    /\ FnOutcome("user") = "deny" /\ Invoked("user")
    /\ FnOutcome("group") = "absent"
    /\ last.result = "False"
    /\ olp_cache[last.inst][PermCacheName("user", last.perm, last.obj)]
         = "False"

\* The access functions called in the last call that failed with an
\* exception other than PermissionDenied
Defects ==
    {c \in FnCalls(last.events) : last.fn[AccessFnName(c[1], c[2])] = "error"}

\* C32: an exception other than PermissionDenied raised by an access
\* function is not turned into a grant or a denial.  When has_perm or
\* get_*_permissions called a function that failed, the call raises: it
\* returns neither a boolean nor a set, and the failed call is the last
\* thing it did.  It raises in no other case.
C32_DefectPropagates ==
    last.op \in {"has_perm", "get_permissions"}
    => /\ Defects # {}
          => /\ last.result = Raise
             /\ last.result \notin {"True", "False", "set"}
             /\ last.events[Len(last.events)][1] = "fn"
             /\ <<last.events[Len(last.events)][2],
                   last.events[Len(last.events)][3]>> \in Defects
       /\ Defects = {} => last.result \in {"True", "False", "set"}

C32_Witness ==
    /\ last.op = "get_permissions" /\ last.from_name = "both"
    /\ last.obj = "e1"
    /\ FnCalls(last.events) = {<<"user", DeleteOPTest>>,
                                <<"group", DeleteOPTest>>}
    /\ last.fn[AccessFnName("user", DeleteOPTest)] = "deny"
    /\ last.fn[AccessFnName("group", DeleteOPTest)] = "error"
    /\ last.result = Raise

\* C33: has_perm returns the boolean True or the boolean False whatever the
\* access functions return, booleans, 1, 0 or None: never the raw value of
\* an access function (which is what the cache holds) and never None.
C33_BooleanResult ==
    last.op = "has_perm" => last.result \in {"True", "False"}

C33_Witness ==
    /\ last.op = "has_perm" /\ last.pre.is_active /\ ~Bypassed
    /\ Invoked("user") /\ FnOutcome("user") = "1"
    /\ olp_cache[last.inst][PermCacheName("user", last.perm, last.obj)] = "1"
    /\ last.result = "True"

\* The cache keys the last call stored under, from its trace
Stored ==
    {last.events[n][2] :
        n \in {m \in DOMAIN last.events : last.events[m][1] = "store"}}

\* The cache key of the access function whose failure ended the last call
FailingKey ==
    PermCacheName(last.events[Len(last.events)][2],
                  last.events[Len(last.events)][3], last.obj)

\* The last call was left by an exception of an access function
Propagated ==
    /\ last.op \in {"has_perm", "get_permissions"}
    /\ last.result = Raise

\* C34 as stated: a call that propagates a defect leaves the cache as it
\* found it.
C34_Original ==
    Propagated => olp_cache[last.inst] = last.pre.olp_cache

\* C34: a call that propagates a defect stores nothing under the key of
\* the function that failed, so a later call asks that function again.
\* What the call resolved before the failure (the user source when the
\* group function fails, the permissions earlier in the catalog) is in
\* the cache and stays; nothing else is written and nothing is removed.
C34_NothingForFailingKey ==
    Propagated
    => /\ FailingKey \notin DOMAIN olp_cache[last.inst]
       /\ FailingKey \notin Stored
       /\ DOMAIN olp_cache[last.inst]
            = DOMAIN last.pre.olp_cache \cup Stored
       /\ \A k \in DOMAIN last.pre.olp_cache :
             olp_cache[last.inst][k] = last.pre.olp_cache[k]

C34_Witness ==
    /\ Propagated /\ last.op = "has_perm"
    /\ last.pre.olp_cache = EmptyCache
    /\ FnOutcome("user") = "deny" /\ FnOutcome("group") = "error"
    /\ FailingKey = PermCacheName("group", last.perm, last.obj)
    /\ DOMAIN olp_cache[last.inst]
         = {PermCacheName("user", last.perm, last.obj)}

\* C35: clear_perm_cache completes without raising in every state of the
\* instance, also right after construction and right after another
\* clear_perm_cache.
C35_ClearNeverRaises ==
    last.op = "clear_perm_cache" => last.result # Raise

\* How often the event occurs in the trace of the last call
Times(e) ==
    Cardinality({n \in DOMAIN last.events : last.events[n] = e})

\* The sources whose decision on perm the last call did not find cached
Missed(perm) ==
    {from_name \in Sources :
        PermCacheName(from_name, perm, last.obj)
          \notin DOMAIN last.pre.olp_cache}

\* C36: a source resolution makes at most one model-level lookup and at
\* most one call of the access function, and neither on a cache hit; the
\* access function is called only right after the model-level lookup of
\* its resolution, and only when that lookup found the permission held.
\* In the trace of has_perm and get_*_permissions: a call of an access
\* function directly follows the lookup of its permission, which is held;
\* a lookup opens the trace or follows a store; per permission there are
\* no more lookups than sources missing in the cache, and per source at
\* most one call and one store, none for a source found in the cache.
C36_OneLookupOneCall ==
    last.op \in {"has_perm", "get_permissions"}
    => /\ \A n \in DOMAIN last.events :
             /\ last.events[n][1] = "fn"
                  => /\ n > 1
                     /\ last.events[n - 1] = <<"has_perm", last.events[n][3]>>
                     /\ ModelHasPerm(last.pre, last.events[n][3],
                                     last.db).holds
             /\ last.events[n][1] = "has_perm"
                  => (n = 1 \/ last.events[n - 1][1] = "store")
       /\ \A perm \in Perms :
             /\ Times(<<"has_perm", perm>>) <= Cardinality(Missed(perm))
             /\ \A from_name \in Sources :
                   /\ Times(<<"fn", from_name, perm>>) <= 1
                   /\ Times(<<"store",
                              PermCacheName(from_name, perm, last.obj)>>) <= 1
                   /\ from_name \notin Missed(perm)
                        => /\ Times(<<"fn", from_name, perm>>) = 0
                           /\ Times(<<"store",
                                      PermCacheName(from_name, perm,
                                                    last.obj)>>) = 0

C36_Witness ==
    /\ last.op = "has_perm" /\ last.pre.is_active /\ ~Bypassed
    /\ WasCached("user") /\ ~WasCached("group")
    /\ FnOutcome("user") = "True"
    /\ last.events = <<<<"has_perm", last.perm>>,
                       <<"fn", "group", last.perm>>,
                       <<"store",
                         PermCacheName("group", last.perm, last.obj)>>>>

\* C37: finished logs are kept by name and the latest ending wins.  After
\* end_log the log ended is the last of the finished logs, with the lines
\* logged to it since its start; a finished log of the same name is gone,
\* the other finished logs are as they were.  get_log of a name that was
\* started again and not ended since gives the lines of its last ending.
C37_LatestEndingWins ==
    /\ (last.op = "end_log" /\ last.result = "None")
         => /\ DOMAIN last.hist.started # {}
            /\ LogsNow.finished # <<>>
            /\ LogsNow.finished[Len(LogsNow.finished)]
                 = <<LastStarted(last.hist),
                     last.hist.lines[LastStarted(last.hist)]>>
            /\ SubSeq(LogsNow.finished, 1, Len(LogsNow.finished) - 1)
                 = Pop(last.logs.finished, LastStarted(last.hist))
    /\ (last.op = "get_log" /\ last.name \in DOMAIN last.hist.started
        /\ last.name \in DOMAIN last.hist.ended)
         => /\ last.result = "None"
            /\ last.value
                 = IF last.raw
                   THEN <<"list", last.hist.ended[last.name].lines>>
                   ELSE <<"str", Join(last.hist.ended[last.name].lines)>>

C37_Witness ==
    /\ last.op = "end_log" /\ last.result = "None"
    /\ Len(last.logs.finished) = 2
    /\ last.logs.finished[1][1] = LastStarted(last.hist)
    /\ Len(LogsNow.finished) = 2
    /\ LogsNow.finished[1] = last.logs.finished[2]
    /\ LogsNow.finished[2][1] = LastStarted(last.hist)

\* C38: log() and end_log() called when no log is started and not yet
\* ended raise KeyError and leave the active and the finished logs as they
\* were.
C38_NoActiveLogKeyError ==
    (last.op \in {"log", "end_log"} /\ DOMAIN last.hist.started = {})
    => /\ last.result = "KeyError"
       /\ LogsNow = last.logs
       /\ LogsNow.active = NoLogs

C38_Witness ==
    /\ last.op = "log" /\ last.lines = <<"b", "a">>
    /\ DOMAIN last.hist.started = {}
    /\ DOMAIN last.hist.ended # {}
    /\ last.result = "KeyError"
    /\ LogsNow.finished # NoLogs
    /\ LogsNow = last.logs

\* The position in perms of the entry for a permission (the lists of the
\* views name a permission once)
EntryOf(perm) ==
    CHOOSE n \in DOMAIN last.view_perms : last.view_perms[n][1] = perm

\* The permission lookups and has_perm checks of the last request, in the
\* order they were made
Checked ==
    SelectSeq(last.events, LAMBDA e : e[1] \in {"lookup", "check"})

\* The entries of perms that do not pass for the user of the last request
Failing ==
    {n \in DOMAIN last.view_perms :
        ~EntryPasses(UserObj(last.inst), last.view_perms[n])}

\* All entries before entry n pass
Reached(n) ==
    \A m \in DOMAIN last.view_perms : m < n => m \notin Failing

\* Entry n is a two-tuple whose permission is malformed or does not exist
NoSuchPermission(n) ==
    /\ Len(last.view_perms[n]) = 2
    /\ PermModel(last.view_perms[n][1]) = ""

\* What a request gives when _check_perms raises PermissionDenied
Denial ==
    IF last.raise_exception THEN "PermissionDenied" ELSE "redirect"

\* C39 as stated: a two-tuple entry that is reached and whose permission
\* is malformed or does not exist ends the request with PermissionDenied.
C39_Original ==
    last.op = "request"
    => \A n \in DOMAIN last.view_perms :
          (NoSuchPermission(n) /\ Reached(n)) => last.result = Denial

\* C39: a two-tuple entry whose permission is malformed or does not exist
\* raises PermissionDenied right after the permission lookup, with no
\* object loaded, has_perm not asked and the keyword argument left as it
\* was, provided view_kwargs holds the argument the entry names (reading
\* it comes first and raises KeyError otherwise).  The entries are gone
\* through in their order and the first that fails ends the loop: no later
\* entry is looked up or checked or has its keyword argument replaced,
\* while every two-tuple entry before it has.
C39_FirstFailureEndsChecks ==
    last.op = "request"
    => /\ \A n \in DOMAIN last.view_perms :
             (/\ NoSuchPermission(n) /\ Reached(n)
              /\ last.view_perms[n][2] \in DOMAIN last.kwargs)
             => /\ last.result = Denial
                /\ last.events[Len(last.events)]
                     = <<"lookup", last.view_perms[n][1]>>
                /\ \A j \in DOMAIN last.events :
                      last.events[j][1] = "check"
                        => last.events[j][2] # last.view_perms[n][1]
                /\ last.view_kwargs[last.view_perms[n][2]]
                     = last.kwargs[last.view_perms[n][2]]
       /\ \A i, j \in DOMAIN Checked :
             i < j => EntryOf(Checked[i][2]) <= EntryOf(Checked[j][2])
       /\ \A n \in DOMAIN last.view_perms :
             IF Reached(n) /\ n \notin Failing
             THEN /\ \E j \in DOMAIN Checked :
                       /\ Checked[j][1] = "check"
                       /\ Checked[j][2] = last.view_perms[n][1]
                  /\ Len(last.view_perms[n]) = 2
                       => last.view_kwargs[last.view_perms[n][2]]
                            = ObjectOf(PermModel(last.view_perms[n][1]),
                                       last.kwargs[last.view_perms[n][2]])
             ELSE /\ last.result # "view"
                  /\ ~Reached(n)
                       => /\ \A j \in DOMAIN Checked :
                                Checked[j][2] # last.view_perms[n][1]
                          /\ (/\ Len(last.view_perms[n]) = 2
                              /\ last.view_perms[n][2]
                                   \in DOMAIN last.kwargs)
                               => last.view_kwargs[last.view_perms[n][2]]
                                    = last.kwargs[last.view_perms[n][2]]

C39_Witness ==
    /\ last.op = "request"
    /\ last.view_perms = <<<<NotARealPermission, "pk">>,
                           <<ViewOPTest, "other">>>>
    /\ last.pre.is_active /\ ~last.pre.is_superuser
    /\ last.db = Perms
    /\ last.raise_exception /\ last.result = "PermissionDenied"
    /\ last.events = <<<<"lookup", NotARealPermission>>>>
    /\ last.view_kwargs = last.kwargs

====
